---- MODULE Spec2Model ----
(***************************************************************************)
(* Timestamp alignment of aind-ephys-rig-qc                                *)
(* (src/src/aind_ephys_rig_qc/temporal_alignment.py).                      *)
(*                                                                         *)
(* Four specifications share this module:                                  *)
(*   SpecArchive  repeated calls of archive_and_replace_original_timestamps*)
(*                on one folder, taken statement by statement;             *)
(*   Spec         one run of align_timestamps over the recordings of a     *)
(*                session, taken block by block;                           *)
(*   SpecHarp     one run of align_timestamps_harp, alone or after         *)
(*                align_timestamps on the same directory;                  *)
(*   SpecChunks   one call of clean_up_sample_chunks.                      *)
(*                                                                         *)
(* Arrays are sequences.  Times are exact rationals kept as an integer     *)
(* numerator over the sample rate of the stream they were computed from.   *)
(***************************************************************************)
EXTENDS Integers, Sequences, FiniteSets

(***************************************************************************)
(* Bounds of the model                                                     *)
(***************************************************************************)
\* longest array handed to archive_and_replace_original_timestamps
MaxArrayLen == 2
\* largest value of an array element in SpecArchive
MaxArrayVal == 1
\* calls of archive_and_replace_original_timestamps on the folder
MaxCalls == 3
\* sync pulses of a recording are numbered 0..MaxPulse
MaxPulse == 2
\* recordings of a session
MaxRecordings == 2
\* barcode segments on the Harp line of a recording
MaxSegments == 2
\* longest sample counter handed to clean_up_sample_chunks
MaxCounterLen == 5
\* largest sample number of such a counter
MaxCounterVal == 4

(***************************************************************************)
(* Files of one folder: a function from the names of the files that exist  *)
(* to their contents.                                                      *)
(***************************************************************************)
TimestampFilename == "timestamps.npy"

OriginalTimestampFilename == "original_timestamps.npy"

LocalTimestampFilename == "local_timestamps.npy"

ArchiveNames == {OriginalTimestampFilename, LocalTimestampFilename}

Exists(dir, f) == f \in DOMAIN dir

\* Path.rename: the file is afterwards known under the new name only
Rename(dir, from, to) ==
    [f \in (DOMAIN dir \ {from}) \cup {to} |->
        IF f = to THEN dir[from] ELSE dir[f]]

\* Path.unlink
Unlink(dir, f) == [g \in DOMAIN dir \ {f} |-> dir[g]]

\* np.save
Save(dir, f, data) ==
    [g \in DOMAIN dir \cup {f} |-> IF g = f THEN data ELSE dir[g]]

\* a plausible slip: the current file is always moved over the archive
ArchiveOrRemoveAlwaysRename(dir, ts, arch) == Rename(dir, ts, arch)

\* a plausible slip: the current file is removed whether or not an archive
\* exists
ArchiveOrRemoveAlwaysUnlink(dir, ts, arch) == Unlink(dir, ts)

\* lines 268-275: the first call archives the current file, later calls
\* remove it
ArchiveOrRemove(dir, ts, arch) ==
    IF ~ Exists(dir, arch)
    THEN Rename(dir, ts, arch)
    ELSE Unlink(dir, ts)

\* a call that prints nothing
ArchiveReportsNothing(dir, arch) == FALSE

\* lines 268-274: a call that finds the archive prints that the timestamps
\* were already archived, before it removes the current file
ArchiveReports(dir, arch) == Exists(dir, arch)

\* rename and unlink both raise FileNotFoundError without the current file
ArchiveRaises(dir, ts) == ~ Exists(dir, ts)

\* a plausible slip: the new timestamps are saved over the current file and
\* nothing is archived
ArchiveAndReplaceInPlace(dir, new_timestamps, ts, arch) ==
    Save(dir, ts, new_timestamps)

\* a plausible slip: a call that finds the archive puts its contents back
\* in place of the current file
ArchiveAndReplaceRestoring(dir, new_timestamps, ts, arch) ==
    IF Exists(dir, arch)
    THEN Save(dir, ts, dir[arch])
    ELSE Save(Rename(dir, ts, arch), ts, new_timestamps)

\* the whole of archive_and_replace_original_timestamps, when it succeeds
ArchiveAndReplace(dir, new_timestamps, ts, arch) ==
    Save(ArchiveOrRemove(dir, ts, arch), ts, new_timestamps)

(***************************************************************************)
(* SpecArchive: calls of archive_and_replace_original_timestamps on one    *)
(* folder                                                                  *)
(***************************************************************************)
VARIABLES
    a_dir,      \* the files of the folder
    a_arch,     \* archive_filename of the calls
    a_pc,       \* "idle" between calls, "save" between lines 275 and 278
    a_new,      \* new_timestamps of the call in progress
    a_calls,    \* calls started
    a_done,     \* calls that returned normally
    a_orig,     \* contents of the current file before the first call
    a_err       \* the exception of the last call, "" when it returned

avars == <<a_dir, a_arch, a_pc, a_new, a_calls, a_done, a_orig, a_err>>

(***************************************************************************)
(* State of a run of align_timestamps                                      *)
(***************************************************************************)
VARIABLES
    pc,                     \* the block of align_timestamps to run next
    err,                    \* the exception that ended the run, "" if none
    flip_NIDAQ,             \* parameter of the run
    recordings_left,        \* recordings of the session not yet loaded
    streams,                \* recording.continuous of the current recording
    events,                 \* recording.events of the current recording
    fs,                     \* folders of the current recording
    stream_idx,             \* position of the stream loop (1-based), 0 outside
    main_stream_events,     \* line 346/353, trimmed at 587/602
    main_stream_event_sample, \* line 400
    main_stream_times,      \* line 393-399, trimmed at 588/605
    main_stream_events_archive, \* line 486
    events_for_stream,      \* line 499/506, trimmed at 594/610
    ts_stream,              \* line 658
    remap_args,             \* anchors and times of the last remapper call
    written                 \* folders replaced so far, in order

alignvars == <<pc, err, flip_NIDAQ, recordings_left, streams, events, fs,
               stream_idx, main_stream_events, main_stream_event_sample,
               main_stream_times, main_stream_events_archive,
               events_for_stream, ts_stream, remap_args, written>>

(***************************************************************************)
(* State of a call of clean_up_sample_chunks                               *)
(***************************************************************************)
VARIABLES
    c_sample_number,    \* the argument
    c_pc,               \* "call" before the call, "returned" or "raised" after
    c_result            \* what the call returned, or the exception it raised

cvars == <<c_sample_number, c_pc, c_result>>

(***************************************************************************)
(* State of a run of align_timestamps_harp, and of the caller that runs it *)
(* after align_timestamps                                                  *)
(***************************************************************************)
VARIABLES
    method,             \* "local": align_timestamps only; "harp": then
                        \* align_timestamps_harp; "harp_only": the latter alone
    line_stats,         \* p_value and p_short of each scanned line, in percent
    harp_candidates,    \* the lines returned by search_harp_line
    typed,              \* the line typed at the prompt of line 792, 0 if none
    barcode,            \* the outcome of convert_barcode for each barcode found
    harp_line,          \* line 792/798
    start_times,        \* line 836: local times of the decoded barcodes
    harp_times          \* line 836: Harp times of the decoded barcodes

harpvars == <<method, line_stats, harp_candidates, typed, harp_line,
              barcode, start_times, harp_times>>

(***************************************************************************)
(* The arguments of a run that are not about the data, what the run has    *)
(* printed and saved beside the timestamps, and the runs before it         *)
(***************************************************************************)
VARIABLES
    make_plots,         \* the argument make_plots
    pdf,                \* whether a report was passed as argument pdf
    png,                \* the figures saved in the session directory
    reported,           \* the folders for which the run printed that the
                        \* timestamps were already archived
    rerun,              \* whether the directory was already aligned when
                        \* the run started
    first_run,          \* what an earlier run on a copy of the data left
    report_file         \* whether generate_qc_report has saved the report

runvars == <<make_plots, pdf, png, reported, rerun, first_run, report_file>>

vars == <<avars, alignvars, cvars, harpvars, runvars>>

\* the defaults of lines 286-287 and 746-747, on data as acquired
RunDefaults ==
    /\ make_plots = TRUE
    /\ pdf = FALSE
    /\ png = {}
    /\ reported = {}
    /\ rerun = FALSE
    /\ first_run = <<>>
    /\ report_file = FALSE

Arrays == UNION {[1..n -> 0..MaxArrayVal] : n \in 1..MaxArrayLen}

HarpParked ==
    /\ method = "local"
    /\ line_stats = <<>>
    /\ harp_candidates = <<>>
    /\ typed = 0
    /\ harp_line = 0
    /\ barcode = <<>>
    /\ start_times = <<>>
    /\ harp_times = <<>>

ArchiveInit ==
    /\ RunDefaults
    /\ HarpParked
    /\ a_orig \in Arrays
    /\ a_arch \in ArchiveNames
    /\ a_dir = [f \in {TimestampFilename} |-> a_orig]
    /\ a_pc = "idle"
    /\ a_new = <<>>
    /\ a_calls = 0
    /\ a_done = 0
    /\ a_err = ""
    /\ c_sample_number = <<>>
    /\ c_pc = "parked"
    /\ c_result = <<>>
    /\ pc = "parked"
    /\ err = ""
    /\ flip_NIDAQ = FALSE
    /\ recordings_left = 0
    /\ streams = <<>>
    /\ events = <<>>
    /\ fs = <<>>
    /\ stream_idx = 0
    /\ main_stream_events = <<>>
    /\ main_stream_event_sample = <<>>
    /\ main_stream_times = <<>>
    /\ main_stream_events_archive = <<>>
    /\ events_for_stream = <<>>
    /\ ts_stream = <<>>
    /\ remap_args = <<>>
    /\ written = <<>>

\* lines 266-275 with the current file present
ArchiveCall ==
    /\ a_pc = "idle"
    /\ a_calls < MaxCalls
    /\ ~ ArchiveRaises(a_dir, TimestampFilename)
    /\ \E new_timestamps \in Arrays : a_new' = new_timestamps
    /\ a_dir' = ArchiveOrRemove(a_dir, TimestampFilename, a_arch)
    /\ a_pc' = "save"
    /\ a_calls' = a_calls + 1
    /\ a_err' = ""
    /\ UNCHANGED <<a_arch, a_done, a_orig, alignvars, cvars, runvars,
                   harpvars>>

\* lines 266-275 with the current file missing: rename or unlink raises
ArchiveCallRaises ==
    /\ a_pc = "idle"
    /\ a_calls < MaxCalls
    /\ ArchiveRaises(a_dir, TimestampFilename)
    /\ a_calls' = a_calls + 1
    /\ a_err' = "FileNotFoundError"
    /\ UNCHANGED <<a_dir, a_arch, a_pc, a_new, a_done, a_orig, alignvars,
                   cvars, runvars, harpvars>>

\* line 278
ArchiveSave ==
    /\ a_pc = "save"
    /\ a_dir' = Save(a_dir, TimestampFilename, a_new)
    /\ a_pc' = "idle"
    /\ a_done' = a_done + 1
    /\ UNCHANGED <<a_arch, a_new, a_calls, a_orig, a_err, alignvars, cvars,
                   runvars, harpvars>>

\* line 278 when np.save raises (the disk is full, the folder read-only)
ArchiveSaveRaises ==
    /\ a_pc = "save"
    /\ a_pc' = "idle"
    /\ a_err' = "OSError"
    /\ UNCHANGED <<a_dir, a_arch, a_new, a_calls, a_done, a_orig, alignvars,
                   cvars, runvars, harpvars>>

ArchiveNext ==
    \/ ArchiveCall
    \/ ArchiveCallRaises
    \/ ArchiveSave
    \/ ArchiveSaveRaises

SpecArchive == ArchiveInit /\ [][ArchiveNext]_vars

\* C1: after one or more successful calls the folder holds exactly one
\* archive file, its contents are those the timestamps file had before the
\* first call, and no later call changes it: only the current file is
\* replaced.
ArchiveKeepsFirstContents ==
    a_done >= 1 =>
        /\ DOMAIN a_dir \cap ArchiveNames = {a_arch}
        /\ a_dir[a_arch] = a_orig
        /\ (a_pc = "idle" /\ a_err = "") =>
              /\ DOMAIN a_dir = {TimestampFilename, a_arch}
              /\ a_dir[TimestampFilename] = a_new

\* two calls have returned and the current file differs from the archive
ArchivedTwiceWitness ==
    /\ a_done >= 2
    /\ a_pc = "idle"
    /\ a_err = ""
    /\ a_dir[a_arch] = a_orig
    /\ a_dir[TimestampFilename] # a_orig

(***************************************************************************)
(* The recordings read by align_timestamps                                 *)
(***************************************************************************)
\* "PXIe", the text looked for in stream names (lines 342 and 495)
PXIe == <<"P", "X", "I", "e">>

\* Python's `s in t` on strings, here sequences of characters
IsSubstring(s, t) ==
    \E i \in 0..(Len(t) - Len(s)) : SubSeq(t, i + 1, i + Len(s)) = s

\* the streams of the modelled rigs: two probes of one Neuropixels
\* processor and one NI-DAQ board, with a sample rate each
ProbeA ==
    [stream_name |-> <<"P", "r", "A">>, source_node_id |-> 100,
     sample_rate |-> 4, folder |-> <<"N", "P", "X", "I", ".", "P", "r", "A">>]

ProbeB ==
    [stream_name |-> <<"P", "r", "B">>, source_node_id |-> 100,
     sample_rate |-> 4, folder |-> <<"N", "P", "X", "I", ".", "P", "r", "B">>]

NIDAQ ==
    [stream_name |-> <<"P", "X", "I", "e", "1">>, source_node_id |-> 103,
     sample_rate |-> 8, folder |-> <<"N", "I", ".", "P", "X", "I", "e", "1">>]

\* recording.continuous of the modelled rigs
Layouts == {<<ProbeA, NIDAQ, ProbeB>>, <<NIDAQ, ProbeA>>}

\* default of the parameter local_sync_line
local_sync_line == 1

\* a digital line other than the sync line
OtherLine == local_sync_line + 1

\* default of the parameter main_stream_index (0-based, as in the source)
main_stream_index == 0

\* default of the parameter original_timestamp_filename
original_timestamp_filename == OriginalTimestampFilename

Pulses == 0..MaxPulse

\* the pulses a stream has seen: those from one pulse to another (a stream
\* that starts late or stops early misses pulses at an end), possibly none
PulseRanges == {lo..hi : lo \in Pulses, hi \in Pulses}

\* stream.sample_numbers: the recording lasts 2 * MaxPulse + 2 samples of a
\* probe, and each stream counts its own samples from 0
SampleCounter(stream) ==
    [i \in 1..(((2 * MaxPulse + 2) * stream.sample_rate) \div ProbeA.sample_rate)
        |-> i - 1]

Min(S) == CHOOSE m \in S : \A x \in S : m <= x

Range(s) == {s[i] : i \in 1..Len(s)}

RECURSIVE Ascending(_)
Ascending(S) ==
    IF S = {} THEN <<>> ELSE <<Min(S)>> \o Ascending(S \ {Min(S)})

RECURSIVE Reverse(_)
Reverse(s) ==
    IF s = <<>> THEN <<>> ELSE Reverse(Tail(s)) \o <<Head(s)>>

RECURSIVE Flatten(_)
Flatten(ss) ==
    IF ss = <<>> THEN <<>> ELSE Head(ss) \o Flatten(Tail(ss))

Event(stream, line, state, sample_number) ==
    [stream_name |-> stream.stream_name,
     processor_id |-> stream.source_node_id,
     line |-> line, state |-> state, sample_number |-> sample_number]

\* The TTL events of one stream, as acquired: pulse k of the sync line has
\* one edge at sample 2k and the opposite edge at sample 2k + 1; on an
\* inverted line the first edge is the falling one.  Every stream also has
\* one pulse on another line.
RECURSIVE PulseEvents(_, _, _)
PulseEvents(stream, pulses, inverted) ==
    IF pulses = <<>> THEN <<>>
    ELSE <<Event(stream, local_sync_line,
                 IF inverted THEN 0 ELSE 1, 2 * Head(pulses)),
           Event(stream, local_sync_line,
                 IF inverted THEN 1 ELSE 0, 2 * Head(pulses) + 1)>>
         \o PulseEvents(stream, Tail(pulses), inverted)

StreamEvents(stream, pulses, inverted) ==
    <<Event(stream, OtherLine, 1, 0)>>
    \o PulseEvents(stream, Ascending(pulses), inverted)
    \o <<Event(stream, OtherLine, 0, 2 * MaxPulse + 1)>>

\* recording.events: the TTL events of all streams, in the order persisted
EventLog(layout, pulses, inverted, reversed) ==
    LET log == Flatten([i \in 1..Len(layout) |->
                   StreamEvents(layout[i], pulses[i],
                                inverted /\ IsSubstring(PXIe, layout[i].stream_name))])
    IN  IF reversed THEN Reverse(log) ELSE log

\* sample_numbers.npy of a TTL folder: every event of the stream
RawEventSamples(log, stream) ==
    LET mine == SelectSeq(log, LAMBDA e :
                    /\ e.stream_name = stream.stream_name
                    /\ e.processor_id = stream.source_node_id)
    IN  [i \in 1..Len(mine) |-> mine[i].sample_number]

SampleNumbersFilename == "sample_numbers.npy"

(***************************************************************************)
(* harp.clock.align_timestamps_to_anchor_points, the remapper, by its      *)
(* contract: the anchors and their times must pair up, and every input     *)
(* value is mapped to one output value.  An output value is kept as the    *)
(* input value together with the anchor set that maps it.                  *)
(***************************************************************************)
RemapRaises(anchor_index, anchor_times) ==
    Len(anchor_index) # Len(anchor_times)

Remap(x, anchor_index, anchor_times) ==
    [i \in 1..Len(x) |->
        [at |-> x[i], anchors |-> anchor_index, times |-> anchor_times]]

\* timestamps as acquired: no anchor set has been applied
Acquired(x) == [i \in 1..Len(x) |-> [at |-> x[i], anchors |-> <<>>, times |-> <<>>]]

\* the folders of a recording before any alignment
InitialFolders(layout, log) ==
    [d \in ({"continuous", "events"} \X {layout[i].folder : i \in 1..Len(layout)}) |->
        LET stream == CHOOSE st \in {layout[i] : i \in 1..Len(layout)} :
                          st.folder = d[2]
        IN  IF d[1] = "continuous"
            THEN [f \in {TimestampFilename} |-> Acquired(SampleCounter(stream))]
            ELSE [f \in {TimestampFilename, SampleNumbersFilename} |->
                    IF f = TimestampFilename
                    THEN Acquired(RawEventSamples(log, stream))
                    ELSE RawEventSamples(log, stream)]]

\* lines 444-448 and 678-682: the first folder whose name contains the
\* stream name
StreamFolderName(strs, stream_name) ==
    LET hits == {i \in 1..Len(strs) : IsSubstring(stream_name, strs[i].folder)}
    IN  strs[Min(hits)].folder

(***************************************************************************)
(* Anchor selection and reconciliation                                     *)
(***************************************************************************)
\* lines 342 and 495: the state of the sync events of a stream
SyncState(stream_name, flip) ==
    IF IsSubstring(PXIe, stream_name) /\ flip THEN 0 ELSE 1

\* a plausible slip: the line is not part of the filter
SelectSyncEventsAnyLine(evs, stream, flip) ==
    SelectSeq(evs, LAMBDA e :
        /\ e.stream_name = stream.stream_name
        /\ e.processor_id = stream.source_node_id
        /\ e.state = SyncState(stream.stream_name, flip))

\* lines 346-358 and 499-511
SelectSyncEvents(evs, stream, flip) ==
    SelectSeq(evs, LAMBDA e :
        /\ e.stream_name = stream.stream_name
        /\ e.processor_id = stream.source_node_id
        /\ e.line = local_sync_line
        /\ e.state = SyncState(stream.stream_name, flip))

\* insert e after the events of s that are not later than e
RECURSIVE InsertBySample(_, _)
InsertBySample(e, s) ==
    IF s = <<>> THEN <<e>>
    ELSE IF e.sample_number < Head(s).sample_number THEN <<e>> \o s
    ELSE <<Head(s)>> \o InsertBySample(e, Tail(s))

\* a plausible slip: the events are used in the order persisted
SortBySampleNumberOmitted(s) == s

\* lines 360 and 514: sort_values(by="sample_number")
RECURSIVE SortBySampleNumber(_)
SortBySampleNumber(s) ==
    IF s = <<>> THEN <<>>
    ELSE InsertBySample(s[Len(s)], SortBySampleNumber(SubSeq(s, 1, Len(s) - 1)))

\* .sample_number.values
SampleNumbers(evs) == [k \in 1..Len(evs) |-> evs[k].sample_number]

\* lines 393-399: sample / rate, shifted to start at 0; the numerators of
\* the times over the sample rate of the main stream
TimesFromFirst(samples) == [k \in 1..Len(samples) |-> samples[k] - samples[1]]

Abs(x) == IF x < 0 THEN 0 - x ELSE x

\* the threshold 0.1 s of line 575, as a fraction
OffsetThresholdNum == 1

OffsetThresholdDen == 10

\* a plausible slip: both first events are timed with the main rate
OffsetExceedsMainRate(main_first, main_rate, curr_first, curr_rate) ==
    OffsetThresholdDen * Abs(main_first - curr_first)
        > OffsetThresholdNum * main_rate

(***************************************************************************)
(* Binary floating point (IEEE 754 binary64, round to nearest, ties to     *)
(* even), the arithmetic of lines 561-575.  A value that is not negative   *)
(* is the record [int, frac]: the whole part, and the bits after the       *)
(* binary point, frac[i] of weight 2^-i.                                    *)
(***************************************************************************)
\* the bits of the significand of a float64
DoublePrecision == 53

\* the bits of a whole number that a float64 holds exactly, none for 0
BitLength(n) ==
    CHOOSE k \in 0..DoublePrecision : n < 2^k /\ (k = 0 \/ n >= 2^(k - 1))

\* the zero bits before the first one bit
LeadingZeros(bits) ==
    IF \A i \in 1..Len(bits) : bits[i] = 0 THEN Len(bits)
    ELSE (CHOOSE i \in 1..Len(bits) :
             bits[i] = 1 /\ \A j \in 1..(i - 1) : bits[j] = 0) - 1

\* the bits after the point that a float64 keeps for the value
KeptBits(x) ==
    IF x.int > 0 THEN DoublePrecision - BitLength(x.int)
    ELSE LeadingZeros(x.frac) + DoublePrecision

\* one unit in the last place is added, with the carry
Increment(bits) ==
    IF \A i \in 1..Len(bits) : bits[i] = 1
    THEN [bits |-> [i \in 1..Len(bits) |-> 0], carry |-> 1]
    ELSE LET last == CHOOSE i \in 1..Len(bits) :
                         bits[i] = 0 /\ \A j \in (i + 1)..Len(bits) : bits[j] = 1
         IN  [bits |-> [i \in 1..Len(bits) |->
                           IF i < last THEN bits[i]
                           ELSE IF i = last THEN 1 ELSE 0],
              carry |-> 0]

\* the float64 nearest to x, ties to the even significand; sticky tells
\* that the value has bits beyond those of x.frac
RoundToDouble(x, sticky) ==
    LET k == KeptBits(x)
    IN  IF Len(x.frac) <= k THEN x
        ELSE LET kept == SubSeq(x.frac, 1, k)
                 guard == x.frac[k + 1]
                 beyond == sticky \/ \E i \in (k + 2)..Len(x.frac) :
                                         x.frac[i] = 1
                 odd == IF k = 0 THEN x.int % 2 = 1 ELSE x.frac[k] = 1
                 up == Increment(kept)
             IN  IF guard = 1 /\ (beyond \/ odd)
                 THEN [int |-> x.int + up.carry, frac |-> up.bits]
                 ELSE [int |-> x.int, frac |-> kept]

\* the first n bits of r / b for r < b, and what is left of r; the bits
\* are made half by half
RECURSIVE LongDivision(_, _, _)
LongDivision(r, b, n) ==
    IF n = 0 THEN [bits |-> <<>>, rem |-> r]
    ELSE IF n = 1
    THEN IF 2 * r >= b THEN [bits |-> <<1>>, rem |-> 2 * r - b]
                       ELSE [bits |-> <<0>>, rem |-> 2 * r]
    ELSE LET first == LongDivision(r, b, n \div 2)
             second == LongDivision(first.rem, b, n - n \div 2)
         IN  [bits |-> first.bits \o second.bits, rem |-> second.rem]

\* the zero bits with which r / b begins, for 0 < r < b
QuotientLeadingZeros(r, b) ==
    CHOOSE k \in 0..DoublePrecision :
        /\ r >= (b + 2^(k + 1) - 1) \div 2^(k + 1)
        /\ k = 0 \/ r < (b + 2^k - 1) \div 2^k

\* a / b in float64, for whole numbers a >= 0 and b > 0
DoubleDivide(a, b) ==
    LET whole == a \div b
        r == a % b
        n == IF whole > 0 THEN DoublePrecision - BitLength(whole) + 1
             ELSE IF r = 0 THEN 0
             ELSE QuotientLeadingZeros(r, b) + DoublePrecision + 1
        q == LongDivision(r, b, n)
    IN  RoundToDouble([int |-> whole, frac |-> q.bits], q.rem # 0)

\* bits, lengthened with zero bits to n bits
PadBits(bits, n) == bits \o [i \in 1..(n - Len(bits)) |-> 0]

\* the order of two bit sequences of one length
BitsLess(a, b) ==
    \E i \in 1..Len(a) : a[i] < b[i] /\ \A j \in 1..(i - 1) : a[j] = b[j]

\* x > y
DoubleGreater(x, y) ==
    LET n == IF Len(x.frac) > Len(y.frac) THEN Len(x.frac) ELSE Len(y.frac)
    IN  \/ x.int > y.int
        \/ x.int = y.int /\ BitsLess(PadBits(y.frac, n), PadBits(x.frac, n))

\* a - b for bit sequences of one length, and the borrow: a place borrows
\* when the bits after it are less in a than in b
BitsMinus(a, b) ==
    LET n == Len(a)
        borrow(i) == IF BitsLess(SubSeq(a, i + 1, n), SubSeq(b, i + 1, n))
                     THEN 1 ELSE 0
    IN  [bits |-> [i \in 1..n |-> (a[i] - b[i] - borrow(i)) % 2],
         borrow |-> borrow(0)]

\* np.abs(x - y) in float64
DoubleAbsDifference(x, y) ==
    LET n == IF Len(x.frac) > Len(y.frac) THEN Len(x.frac) ELSE Len(y.frac)
        hi == IF DoubleGreater(y, x) THEN y ELSE x
        lo == IF DoubleGreater(y, x) THEN x ELSE y
        d == BitsMinus(PadBits(hi.frac, n), PadBits(lo.frac, n))
    IN  RoundToDouble([int |-> hi.int - lo.int - d.borrow,
                       frac |-> PadBits(d.bits, n)],
                      FALSE)

\* lines 561-575: |main_first / main_rate - curr_first / curr_rate| > 0.1,
\* all of it in float64; the literal 0.1 is the float64 nearest to 1/10
OffsetExceeds(main_first, main_rate, curr_first, curr_rate) ==
    DoubleGreater(
        DoubleAbsDifference(DoubleDivide(main_first, main_rate),
                            DoubleDivide(curr_first, curr_rate)),
        DoubleDivide(OffsetThresholdNum, OffsetThresholdDen))

\* [1:] and [:-1]
DropFirst(s) == IF s = <<>> THEN <<>> ELSE Tail(s)

DropLast(s) == IF s = <<>> THEN <<>> ELSE SubSeq(s, 1, Len(s) - 1)

\* a plausible slip: the back is trimmed whatever the offset
TrimmedAlwaysBack(main_evs, main_times, curr_evs, front) ==
    IF Len(main_evs) > Len(curr_evs)
    THEN [main_events |-> DropLast(main_evs), main_times |-> DropLast(main_times),
          curr_events |-> curr_evs]
    ELSE [main_events |-> main_evs, main_times |-> main_times,
          curr_events |-> DropLast(curr_evs)]

\* lines 575-610: one event less in the longer list
Trimmed(main_evs, main_times, curr_evs, front) ==
    IF front
    THEN IF Len(main_evs) > Len(curr_evs)
         THEN [main_events |-> DropFirst(main_evs),
               main_times |-> DropFirst(main_times),
               curr_events |-> curr_evs]
         ELSE [main_events |-> main_evs, main_times |-> main_times,
               curr_events |-> DropFirst(curr_evs)]
    ELSE IF Len(main_evs) > Len(curr_evs)
         THEN [main_events |-> DropLast(main_evs),
               main_times |-> DropLast(main_times),
               curr_events |-> curr_evs]
         ELSE [main_events |-> main_evs, main_times |-> main_times,
               curr_events |-> DropLast(curr_evs)]

\* the times of the anchors only, not of all raw events
EventTimestampsOfAnchors(dir, anchor_index, anchor_times) ==
    Remap(anchor_index, anchor_index, anchor_times)

\* lines 469-473 and 726-730: the times of all raw events of a TTL folder
EventTimestamps(dir, anchor_index, anchor_times) ==
    Remap(dir[SampleNumbersFilename], anchor_index, anchor_times)

\* lines 405-409 and 658-662: the times of all samples of a stream
ContinuousTimestamps(stream, anchor_index, anchor_times) ==
    Remap(SampleCounter(stream), anchor_index, anchor_times)

\* the stream loop of line 488: the next index that is not the main stream,
\* 0 when the loop is over
NextStreamWithMain(strs, i) == IF i < Len(strs) THEN i + 1 ELSE 0

NextStream(strs, i) ==
    LET later == {j \in (i + 1)..Len(strs) : j # main_stream_index + 1}
    IN  IF later = {} THEN 0 ELSE Min(later)

(***************************************************************************)
(* Spec: a run of align_timestamps                                         *)
(***************************************************************************)
ArchiveParked ==
    /\ a_dir = <<>>
    /\ a_arch = original_timestamp_filename
    /\ a_pc = "parked"
    /\ a_new = <<>>
    /\ a_calls = 0
    /\ a_done = 0
    /\ a_orig = <<>>
    /\ a_err = ""

ChunksParked ==
    /\ c_sample_number = <<>>
    /\ c_pc = "parked"
    /\ c_result = <<>>

Init ==
    /\ RunDefaults
    /\ ArchiveParked
    /\ ChunksParked
    /\ HarpParked
    /\ pc = "load"
    /\ err = ""
    /\ flip_NIDAQ \in BOOLEAN
    /\ recordings_left \in 1..MaxRecordings
    /\ streams = <<>>
    /\ events = <<>>
    /\ fs = <<>>
    /\ stream_idx = 0
    /\ main_stream_events = <<>>
    /\ main_stream_event_sample = <<>>
    /\ main_stream_times = <<>>
    /\ main_stream_events_archive = <<>>
    /\ events_for_stream = <<>>
    /\ ts_stream = <<>>
    /\ remap_args = <<>>
    /\ written = <<>>

\* an exception leaves align_timestamps: nothing catches it
Raise(exception) ==
    /\ pc' = "failed"
    /\ err' = exception

\* lines 268-274, for the archive call on a folder: the folders for which
\* the run has printed that the timestamps were already archived
Reported(folder, arch) ==
    IF ArchiveReports(fs[folder], arch)
    THEN reported \cup {folder} ELSE reported

\* the end of the stream loop
EndOfRecording == "end_recording"

\* line 329, the loop over the recordings: the run turns to the folders of
\* the next recording and never comes back to those of the recordings
\* before it; after the last recording the run saves its figure, with
\* make_plots, and ends (lines 739-740)
NextRecording ==
    /\ pc = "end_recording"
    /\ IF recordings_left > 0
       THEN /\ pc' = "load"
            /\ streams' = <<>>
            /\ events' = <<>>
            /\ fs' = <<>>
            /\ stream_idx' = 0
            /\ main_stream_events' = <<>>
            /\ main_stream_event_sample' = <<>>
            /\ main_stream_times' = <<>>
            /\ main_stream_events_archive' = <<>>
            /\ events_for_stream' = <<>>
            /\ ts_stream' = <<>>
            /\ remap_args' = <<>>
            /\ written' = <<>>
            /\ UNCHANGED png
       ELSE /\ pc' = "done"
            /\ png' = IF make_plots
                      THEN png \cup {"temporal_alignment.png"} ELSE png
            /\ UNCHANGED <<streams, events, fs, stream_idx, main_stream_events,
                           main_stream_event_sample, main_stream_times,
                           main_stream_events_archive, events_for_stream,
                           ts_stream, remap_args, written>>
    /\ UNCHANGED <<err, flip_NIDAQ, recordings_left, avars, cvars, make_plots,
                   pdf, reported, rerun, first_run,
                   report_file, harpvars>>

\* the recordings a session may hold: the streams of the rig, the sync
\* pulses each stream has seen, the polarity of the NI-DAQ sync line and the
\* order in which the events were persisted
Recordings ==
    UNION {[layout : {l}, pulses : [1..Len(l) -> PulseRanges],
            inverted : BOOLEAN, reversed : BOOLEAN] : l \in Layouts}

\* the recordings all of whose streams have seen the same sync pulses
SyncedRecordings ==
    {r \in Recordings : \A i \in 1..Len(r.layout) : r.pulses[i] = r.pulses[1]}

\* lines 329-341 and 779-784: recording.continuous and recording.events of
\* the next recording
Load(r) ==
    /\ streams' = r.layout
    /\ events' = EventLog(r.layout, r.pulses, r.inverted, r.reversed)
    /\ recordings_left' = recordings_left - 1
    /\ stream_idx' = 0
    /\ main_stream_events' = <<>>
    /\ main_stream_event_sample' = <<>>
    /\ main_stream_times' = <<>>
    /\ main_stream_events_archive' = <<>>
    /\ events_for_stream' = <<>>
    /\ ts_stream' = <<>>
    /\ remap_args' = <<>>
    /\ written' = <<>>

\* lines 329-341: the next recording of the session is read
LoadRecording ==
    /\ pc = "load"
    /\ recordings_left > 0
    /\ \E r \in Recordings :
         /\ Load(r)
         /\ fs' = InitialFolders(r.layout, events')
    /\ pc' = "main_anchors"
    /\ UNCHANGED <<err, flip_NIDAQ, avars, cvars, runvars, harpvars>>

\* lines 342-402: the anchors of the main stream
BuildMainAnchors ==
    /\ pc = "main_anchors"
    /\ LET main_stream == streams[main_stream_index + 1]
           selected == SortBySampleNumber(
                           SelectSyncEvents(events, main_stream, flip_NIDAQ))
       IN  /\ main_stream_events' = selected
           /\ IF selected = <<>>
              THEN \* line 398: main_stream_times[0] of an empty array
                   /\ Raise("IndexError")
                   /\ UNCHANGED <<main_stream_times, main_stream_event_sample>>
              ELSE /\ main_stream_times' = TimesFromFirst(SampleNumbers(selected))
                   /\ main_stream_event_sample' = SampleNumbers(selected)
                   /\ pc' = "main_continuous"
                   /\ UNCHANGED err
    /\ UNCHANGED <<flip_NIDAQ, recordings_left, streams, events, fs,
                   stream_idx,
                   main_stream_events_archive, events_for_stream, ts_stream,
                   remap_args, written, avars, cvars, runvars, harpvars>>

\* lines 404-455: the continuous timestamps of the main stream
WriteMainContinuous ==
    /\ pc = "main_continuous"
    /\ remap_args' = <<main_stream_event_sample, main_stream_times>>
    /\ LET main_stream == streams[main_stream_index + 1]
           folder == <<"continuous",
                       StreamFolderName(streams, main_stream.stream_name)>>
           ts_main == ContinuousTimestamps(main_stream,
                          main_stream_event_sample, main_stream_times)
       IN  IF RemapRaises(main_stream_event_sample, main_stream_times)
           THEN Raise("ValueError") /\ UNCHANGED <<fs, written, reported>>
           ELSE IF ArchiveRaises(fs[folder], TimestampFilename)
           THEN /\ Raise("FileNotFoundError")
                /\ reported' = Reported(folder, original_timestamp_filename)
                /\ UNCHANGED <<fs, written>>
           ELSE /\ fs' = [fs EXCEPT ![folder] =
                            ArchiveAndReplace(@, ts_main, TimestampFilename,
                                              original_timestamp_filename)]
                /\ written' = Append(written, folder)
                /\ reported' = Reported(folder, original_timestamp_filename)
                /\ pc' = "main_events"
                /\ UNCHANGED err
    /\ UNCHANGED <<flip_NIDAQ, recordings_left, streams, events, stream_idx,
                   main_stream_events, main_stream_event_sample,
                   main_stream_times, main_stream_events_archive,
                   events_for_stream, ts_stream, avars, cvars, make_plots,
                   pdf, png, rerun, first_run,
                   report_file, harpvars>>

\* lines 459-486: the event timestamps of the main stream, and the copy of
\* the main stream events kept for the stream loop
WriteMainEvents ==
    /\ pc = "main_events"
    /\ remap_args' = <<main_stream_event_sample, main_stream_times>>
    /\ LET main_stream == streams[main_stream_index + 1]
           folder == <<"events",
                       StreamFolderName(streams, main_stream.stream_name)>>
           ts_main_events == EventTimestamps(fs[folder],
                                 main_stream_event_sample, main_stream_times)
       IN  IF RemapRaises(main_stream_event_sample, main_stream_times)
           THEN /\ Raise("ValueError")
                /\ UNCHANGED <<fs, written, reported, stream_idx,
                               main_stream_events_archive>>
           ELSE IF ArchiveRaises(fs[folder], TimestampFilename)
           THEN /\ Raise("FileNotFoundError")
                /\ reported' = Reported(folder, original_timestamp_filename)
                /\ UNCHANGED <<fs, written, stream_idx,
                               main_stream_events_archive>>
           ELSE /\ fs' = [fs EXCEPT ![folder] =
                            ArchiveAndReplace(@, ts_main_events,
                                TimestampFilename, original_timestamp_filename)]
                /\ written' = Append(written, folder)
                /\ reported' = Reported(folder, original_timestamp_filename)
                /\ main_stream_events_archive' = main_stream_events
                /\ stream_idx' = NextStream(streams, 0)
                /\ pc' = IF NextStream(streams, 0) = 0
                         THEN EndOfRecording ELSE "select"
                /\ UNCHANGED err
    /\ UNCHANGED <<flip_NIDAQ, recordings_left, streams, events,
                   main_stream_events, main_stream_event_sample,
                   main_stream_times, events_for_stream, ts_stream, avars,
                   cvars, make_plots, pdf, png, rerun, first_run,
                   report_file, harpvars>>

\* lines 488-518: the sync events of the next stream; the main stream
\* events are taken afresh from their copy
SelectStreamEvents ==
    /\ pc = "select"
    /\ main_stream_events' = main_stream_events_archive
    /\ events_for_stream' = SortBySampleNumber(
           SelectSyncEvents(events, streams[stream_idx], flip_NIDAQ))
    /\ pc' = "reconcile"
    /\ UNCHANGED <<err, flip_NIDAQ, recordings_left, streams, events, fs,
                   stream_idx, main_stream_event_sample, main_stream_times,
                   main_stream_events_archive, ts_stream, remap_args, written,
                   avars, cvars, runvars, harpvars>>

\* lines 556-621: one event is removed when the counts differ
Reconcile ==
    /\ pc = "reconcile"
    /\ IF Len(main_stream_events) # Len(events_for_stream)
       THEN IF main_stream_events = <<>> \/ events_for_stream = <<>>
            THEN \* lines 562 and 565: .values[0] of an empty selection
                 /\ Raise("IndexError")
                 /\ UNCHANGED <<main_stream_events, main_stream_times,
                                events_for_stream>>
            ELSE LET front == OffsetExceeds(
                                  main_stream_events[1].sample_number,
                                  streams[main_stream_index + 1].sample_rate,
                                  events_for_stream[1].sample_number,
                                  streams[stream_idx].sample_rate)
                     t == Trimmed(main_stream_events, main_stream_times,
                                  events_for_stream, front)
                 IN  /\ main_stream_events' = t.main_events
                     /\ main_stream_times' = t.main_times
                     /\ events_for_stream' = t.curr_events
                     /\ pc' = "check"
                     /\ UNCHANGED err
       ELSE /\ pc' = "check"
            /\ UNCHANGED <<err, main_stream_events, main_stream_times,
                           events_for_stream>>
    /\ UNCHANGED <<flip_NIDAQ, recordings_left, streams, events, fs,
                   stream_idx, main_stream_event_sample,
                   main_stream_events_archive, ts_stream, remap_args, written,
                   avars, cvars, runvars, harpvars>>

\* np.diff: one element less, none of an empty array
DiffLen(n) == IF n = 0 THEN 0 ELSE n - 1

\* a subtraction that raises whatever the lengths
SubtractRaisesAlways(n, m) == TRUE

\* lines 629-633: the difference of two arrays raises ValueError unless
\* their lengths are equal or one of them is 1 (numpy broadcasting)
SubtractRaises(n, m) == n # m /\ n # 1 /\ m # 1

\* lines 623-645: with make_plots, the plot of the event intervals; then
\* the assertion on the two event counts
CheckCounts ==
    /\ pc = "check"
    /\ IF make_plots /\ SubtractRaises(DiffLen(Len(events_for_stream)),
                                       DiffLen(Len(main_stream_events)))
       THEN Raise("ValueError")
       ELSE IF Len(main_stream_events) = Len(events_for_stream)
       THEN pc' = "remap" /\ UNCHANGED err
       ELSE Raise("AssertionError")
    /\ UNCHANGED <<flip_NIDAQ, recordings_left, streams, events, fs,
                   stream_idx, main_stream_events, main_stream_event_sample,
                   main_stream_times, main_stream_events_archive,
                   events_for_stream, ts_stream, remap_args, written, avars,
                   cvars, runvars, harpvars>>

\* lines 647-662: the remapper is called with the anchors of the stream and
\* the times of the main stream
RemapStream ==
    /\ pc = "remap"
    /\ remap_args' = <<SampleNumbers(events_for_stream), main_stream_times>>
    /\ IF RemapRaises(SampleNumbers(events_for_stream), main_stream_times)
       THEN Raise("ValueError") /\ UNCHANGED ts_stream
       ELSE /\ ts_stream' = ContinuousTimestamps(streams[stream_idx],
                                SampleNumbers(events_for_stream),
                                main_stream_times)
            /\ pc' = "stream_continuous"
            /\ UNCHANGED err
    /\ UNCHANGED <<flip_NIDAQ, recordings_left, streams, events, fs,
                   stream_idx, main_stream_events, main_stream_event_sample,
                   main_stream_times, main_stream_events_archive,
                   events_for_stream, written, avars, cvars, runvars,
                   harpvars>>

\* lines 677-689: the continuous timestamps of the stream
WriteStreamContinuous ==
    /\ pc = "stream_continuous"
    /\ LET folder == <<"continuous",
                       StreamFolderName(streams,
                       streams[stream_idx].stream_name)>>
       IN  IF ArchiveRaises(fs[folder], TimestampFilename)
           THEN /\ Raise("FileNotFoundError")
                /\ reported' = Reported(folder, original_timestamp_filename)
                /\ UNCHANGED <<fs, written>>
           ELSE /\ fs' = [fs EXCEPT ![folder] =
                            ArchiveAndReplace(@, ts_stream, TimestampFilename,
                                              original_timestamp_filename)]
                /\ written' = Append(written, folder)
                /\ reported' = Reported(folder, original_timestamp_filename)
                /\ pc' = "stream_events"
                /\ UNCHANGED err
    /\ UNCHANGED <<flip_NIDAQ, recordings_left, streams, events, stream_idx,
                   main_stream_events, main_stream_event_sample,
                   main_stream_times, main_stream_events_archive,
                   events_for_stream, ts_stream, remap_args, avars, cvars,
                   make_plots, pdf, png, rerun, first_run,
                   report_file, harpvars>>

\* lines 712-737: the event timestamps of the stream, then the next stream
WriteStreamEvents ==
    /\ pc = "stream_events"
    /\ remap_args' = <<SampleNumbers(events_for_stream), main_stream_times>>
    /\ LET folder == <<"events",
                       StreamFolderName(streams,
                       streams[stream_idx].stream_name)>>
           ts_events == EventTimestamps(fs[folder],
                            SampleNumbers(events_for_stream), main_stream_times)
       IN  IF RemapRaises(SampleNumbers(events_for_stream), main_stream_times)
           THEN Raise("ValueError") /\ UNCHANGED <<fs, written, reported, stream_idx>>
           ELSE IF ArchiveRaises(fs[folder], TimestampFilename)
           THEN /\ Raise("FileNotFoundError")
                /\ reported' = Reported(folder, original_timestamp_filename)
                /\ UNCHANGED <<fs, written, stream_idx>>
           ELSE /\ fs' = [fs EXCEPT ![folder] =
                            ArchiveAndReplace(@, ts_events, TimestampFilename,
                                              original_timestamp_filename)]
                /\ written' = Append(written, folder)
                /\ reported' = Reported(folder, original_timestamp_filename)
                /\ stream_idx' = NextStream(streams, stream_idx)
                /\ pc' = IF NextStream(streams, stream_idx) = 0
                         THEN EndOfRecording ELSE "select"
                /\ UNCHANGED err
    /\ UNCHANGED <<flip_NIDAQ, recordings_left, streams, events,
                   main_stream_events, main_stream_event_sample,
                   main_stream_times, main_stream_events_archive,
                   events_for_stream, ts_stream, avars, cvars, make_plots,
                   pdf, png, rerun, first_run,
                   report_file, harpvars>>

Next ==
    \/ LoadRecording
    \/ BuildMainAnchors
    \/ WriteMainContinuous
    \/ WriteMainEvents
    \/ SelectStreamEvents
    \/ Reconcile
    \/ CheckCounts
    \/ RemapStream
    \/ WriteStreamContinuous
    \/ WriteStreamEvents
    \/ NextRecording

Spec == Init /\ [][Next]_vars

TypeOK == pc \in {"load", "main_anchors", "main_continuous", "main_events",
                  "select", "reconcile", "check", "remap",
                  "stream_continuous", "stream_events", "end_recording",
                  "done", "failed"}

(***************************************************************************)
(* SpecHarp: a run of align_timestamps_harp, alone or after                *)
(* align_timestamps as generate_qc_report runs it                          *)
(***************************************************************************)
\* lines 148-151: the streams with "PXIe" in their name
NidaqStreams(strs) ==
    {i \in 1..Len(strs) : IsSubstring(PXIe, strs[i].stream_name)}

\* lines 148-157: the first of them
NidaqStream(strs) == strs[Min(NidaqStreams(strs))]

\* Series.unique: the values in their order of first appearance
RECURSIVE Unique(_)
Unique(s) ==
    IF s = <<>> THEN <<>>
    ELSE LET before == Unique(SubSeq(s, 1, Len(s) - 1))
         IN  IF s[Len(s)] \in Range(before)
             THEN before ELSE Append(before, s[Len(s)])

\* lines 159-163: the lines with a rising edge on the NI-DAQ stream
LinesToScan(evs, nidaq) ==
    LET rising == SelectSeq(evs, LAMBDA e :
                      /\ e.stream_name = nidaq.stream_name
                      /\ e.processor_id = nidaq.source_node_id
                      /\ e.state = 1)
    IN  Unique([i \in 1..Len(rising) |-> rising[i].line])

\* line 229: the thresholds on p_value and p_short, in percent
PValueThreshold == 95

PShortThreshold == 50

\* lines 182-225: the two statistics of a line, in percent.  They are
\* computed from the event times of the line; here they are an input, at a
\* threshold or just above it
LineStatistics ==
    [p_value : {PValueThreshold, PValueThreshold + 1},
     p_short : {PShortThreshold, PShortThreshold + 1}]

\* a selection that also takes a line whose short-gap fraction is at the
\* threshold
CandidateLinesAtThreshold(lines_to_scan, stats) ==
    SelectSeq(lines_to_scan, LAMBDA l :
        /\ stats[l].p_short >= PShortThreshold
        /\ stats[l].p_value > PValueThreshold)

\* line 229
CandidateLines(lines_to_scan, stats) ==
    SelectSeq(lines_to_scan, LAMBDA l :
        /\ stats[l].p_short > PShortThreshold
        /\ stats[l].p_value > PValueThreshold)

\* line 792: what may be typed at the prompt, a line without events included
TypedLines == local_sync_line..(OtherLine + 1)

\* lines 802-806: the events of the Harp line, of either state
HarpEvents(evs, nidaq, line) ==
    SelectSeq(evs, LAMBDA e :
        /\ e.stream_name = nidaq.stream_name
        /\ e.processor_id = nidaq.source_node_id
        /\ e.line = line)

\* lines 822-826: what the call of convert_barcode does on one barcode: it
\* returns, or raises IndexError on a barcode of too few bits, or raises
\* ValueError on a barcode of a single edge
BarcodeOutcomes == {"decoded", "IndexError", "ValueError"}

\* lines 811-832: the barcodes found by get_barcode_edges, at most one per
\* event, each with the outcome of convert_barcode
Barcodes(n_events) ==
    UNION {[1..k -> BarcodeOutcomes] : k \in 0..Min({n_events, MaxSegments})}

\* lines 820-832: the exceptions that the handler of line 831 lets through,
\* in the order of the barcodes
Uncaught(outcomes) ==
    SelectSeq(outcomes, LAMBDA o : o \notin {"decoded", "IndexError"})

\* lines 820-832: the barcodes that decode
ValidBarcodes(outcomes) ==
    SelectSeq([i \in 1..Len(outcomes) |-> i],
              LAMBDA i : outcomes[i] = "decoded")

\* line 836, decode_harp_clock: barcode k starts at local time k and holds
\* the Harp time k + 1
DecodedHarpTimes(valid) == [i \in 1..Len(valid) |-> valid[i] + 1]

\* lines 869-874 and 896-903: the timestamps of a folder, moved to the Harp
\* clock
HarpTimestamps(dir, anchor_index, anchor_times) ==
    Remap(dir[TimestampFilename], anchor_index, anchor_times)

HarpInit ==
    /\ RunDefaults
    /\ ArchiveParked
    /\ ChunksParked
    /\ method \in {"harp", "harp_only"}
    /\ pc = IF method = "harp" THEN "load" ELSE "harp_load"
    /\ recordings_left \in IF method = "harp" THEN {1} ELSE 1..MaxRecordings
    /\ flip_NIDAQ \in IF method = "harp" THEN BOOLEAN ELSE {FALSE}
    /\ err = ""
    /\ streams = <<>>
    /\ events = <<>>
    /\ fs = <<>>
    /\ stream_idx = 0
    /\ main_stream_events = <<>>
    /\ main_stream_event_sample = <<>>
    /\ main_stream_times = <<>>
    /\ main_stream_events_archive = <<>>
    /\ events_for_stream = <<>>
    /\ ts_stream = <<>>
    /\ remap_args = <<>>
    /\ written = <<>>
    /\ line_stats = <<>>
    /\ harp_candidates = <<>>
    /\ typed = 0
    /\ harp_line = 0
    /\ barcode = <<>>
    /\ start_times = <<>>
    /\ harp_times = <<>>

\* lines 329-341, for a recording whose streams have seen the same pulses
LoadSyncedRecording ==
    /\ pc = "load"
    /\ recordings_left > 0
    /\ \E r \in SyncedRecordings :
         /\ Load(r)
         /\ fs' = InitialFolders(r.layout, events')
    /\ pc' = "main_anchors"
    /\ UNCHANGED <<err, flip_NIDAQ, avars, cvars, runvars, harpvars>>

\* generate_report.py lines 93-112: align_timestamps_harp follows
\* align_timestamps on the same directory when the method is "harp"
StartHarp ==
    /\ pc = "done"
    /\ method = "harp"
    /\ pc' = "harp_search"
    /\ stream_idx' = 0
    /\ UNCHANGED <<err, flip_NIDAQ, recordings_left, streams, events, fs,
                   main_stream_events, main_stream_event_sample,
                   main_stream_times, main_stream_events_archive,
                   events_for_stream, ts_stream, remap_args, written,
                   avars, cvars, runvars, harpvars>>

\* lines 779-784: the next recording of a directory that has not been
\* aligned
HarpLoadRecording ==
    /\ pc = "harp_load"
    /\ recordings_left > 0
    /\ \E r \in SyncedRecordings :
         /\ Load(r)
         /\ fs' = InitialFolders(r.layout, events')
    /\ pc' = "harp_search"
    /\ UNCHANGED <<err, flip_NIDAQ, avars, cvars, runvars, harpvars>>

\* the variables of align_timestamps that align_timestamps_harp has not
anchorvars ==
    <<flip_NIDAQ, main_stream_events, main_stream_event_sample,
      main_stream_times, main_stream_events_archive, events_for_stream,
      ts_stream, remap_args>>

\* lines 787-789 and 145-243, search_harp_line: the lines of the NI-DAQ
\* stream whose statistics pass both thresholds
HarpSearchLine ==
    /\ pc = "harp_search"
    /\ IF NidaqStreams(streams) = {}
       THEN \* line 152: nidaq_stream_ind was never bound
            Raise("UnboundLocalError")
            /\ UNCHANGED <<line_stats, harp_candidates, png>>
       ELSE LET lines_to_scan == LinesToScan(events, NidaqStream(streams))
            IN  IF lines_to_scan = <<>>
                THEN \* line 172: a figure with no column
                     Raise("ValueError")
                     /\ UNCHANGED <<line_stats, harp_candidates, png>>
                ELSE \E stats \in [Range(lines_to_scan) -> LineStatistics] :
                        /\ line_stats' = stats
                        /\ harp_candidates' =
                               CandidateLines(lines_to_scan, stats)
                        \* line 241, whatever make_plots and pdf are
                        /\ png' = png \cup {"harp_line_search.png"}
                        /\ pc' = "harp_select"
                        /\ UNCHANGED err
    /\ UNCHANGED <<recordings_left, streams, events, fs, stream_idx, written,
                   method, typed, harp_line, barcode, start_times, harp_times,
                   anchorvars, avars, cvars, make_plots, pdf, reported, rerun,
                   first_run, report_file>>

\* a selection that takes the first candidate whatever was typed
SelectedHarpLineFirstCandidate(candidates, input) == candidates[1]

\* lines 790-799: the Harp line of a recording with candidates, the integer
\* read at the prompt when there are several and the only candidate otherwise
SelectedHarpLine(candidates, input) ==
    IF Len(candidates) > 1 THEN input ELSE candidates[1]

\* lines 790-799: the Harp line is the only candidate, or the line typed
\* at the prompt when there are several; a recording without candidate is
\* skipped
HarpSelectLine ==
    /\ pc = "harp_select"
    /\ IF Len(harp_candidates) > 1
       THEN \/ \E input \in TypedLines :
                 /\ typed' = input
                 /\ harp_line' = SelectedHarpLine(harp_candidates, input)
                 /\ pc' = "harp_decode"
                 /\ UNCHANGED err
            \/ \* no input to read, or text that is not an integer
               \E exception \in {"EOFError", "ValueError"} :
                 Raise(exception) /\ UNCHANGED <<typed, harp_line>>
       ELSE IF Len(harp_candidates) = 0
       THEN pc' = "harp_end_recording" /\ UNCHANGED <<err, typed, harp_line>>
       ELSE /\ harp_line' = SelectedHarpLine(harp_candidates, 0)
            /\ pc' = "harp_decode"
            /\ UNCHANGED <<err, typed>>
    /\ UNCHANGED <<recordings_left, streams, events, fs, stream_idx, written,
                   method, line_stats, harp_candidates, barcode, start_times,
                   harp_times, anchorvars, avars, cvars, runvars>>

\* lines 801-838: the barcodes of the Harp line are decoded into anchors;
\* an exception of convert_barcode other than IndexError leaves the loop of
\* line 820, and np.concatenate raises when no barcode is valid
HarpDecode ==
    /\ pc = "harp_decode"
    /\ \E outcomes \in Barcodes(Len(HarpEvents(events, NidaqStream(streams),
                                               harp_line))) :
         LET valid == ValidBarcodes(outcomes)
         IN  /\ barcode' = outcomes
             /\ IF Uncaught(outcomes) # <<>>
                THEN /\ Raise(Uncaught(outcomes)[1])
                     /\ UNCHANGED <<start_times, harp_times, stream_idx>>
                ELSE IF valid = <<>>
                THEN /\ Raise("ValueError")
                     /\ UNCHANGED <<start_times, harp_times, stream_idx>>
                ELSE /\ start_times' = valid
                     /\ harp_times' = DecodedHarpTimes(valid)
                     /\ stream_idx' = 1
                     /\ pc' = "harp_continuous"
                     /\ UNCHANGED err
    /\ UNCHANGED <<recordings_left, streams, events, fs, written,
                   method, line_stats, harp_candidates, typed, harp_line,
                   anchorvars, avars, cvars, runvars>>

\* lines 861-890: the continuous timestamps of a stream; they were read
\* when the recording was loaded, and nothing has written them since
HarpWriteContinuous ==
    /\ pc = "harp_continuous"
    /\ LET folder == <<"continuous",
                       StreamFolderName(streams,
                       streams[stream_idx].stream_name)>>
       IN  \* line 872: the timestamps in memory are remapped first
           IF RemapRaises(start_times, harp_times)
           THEN Raise("ValueError") /\ UNCHANGED <<fs, written, reported>>
           ELSE IF ArchiveRaises(fs[folder], TimestampFilename)
           THEN \* lines 885-890: the archive call prints before it raises
                /\ Raise("FileNotFoundError")
                /\ reported' = Reported(folder, LocalTimestampFilename)
                /\ UNCHANGED <<fs, written>>
           ELSE /\ fs' = [fs EXCEPT ![folder] =
                            ArchiveAndReplace(@,
                                HarpTimestamps(@, start_times, harp_times),
                                TimestampFilename, LocalTimestampFilename)]
                /\ written' = Append(written, folder)
                /\ reported' = Reported(folder, LocalTimestampFilename)
                /\ pc' = "harp_events"
                /\ UNCHANGED err
    /\ UNCHANGED <<recordings_left, streams, events, stream_idx, harpvars,
                   anchorvars, avars, cvars, make_plots, pdf, png, rerun,
                   first_run, report_file>>

\* lines 892-922: the event timestamps of the stream, then the next stream
\* or, with make_plots, the figure of the recording
HarpWriteEvents ==
    /\ pc = "harp_events"
    /\ LET folder == <<"events",
                       StreamFolderName(streams,
                       streams[stream_idx].stream_name)>>
       IN  IF ArchiveRaises(fs[folder], TimestampFilename)
           THEN /\ Raise("FileNotFoundError")
                /\ UNCHANGED <<fs, written, reported, stream_idx, png>>
           ELSE IF RemapRaises(start_times, harp_times)
           THEN /\ Raise("ValueError")
                /\ UNCHANGED <<fs, written, reported, stream_idx, png>>
           ELSE /\ fs' = [fs EXCEPT ![folder] =
                            ArchiveAndReplace(@,
                                HarpTimestamps(@, start_times, harp_times),
                                TimestampFilename, LocalTimestampFilename)]
                /\ written' = Append(written, folder)
                /\ reported' = Reported(folder, LocalTimestampFilename)
                /\ stream_idx' = IF stream_idx < Len(streams)
                                 THEN stream_idx + 1 ELSE 0
                /\ pc' = IF stream_idx < Len(streams)
                         THEN "harp_continuous" ELSE "harp_end_recording"
                \* lines 912-922, after the last stream
                /\ png' = IF make_plots /\ stream_idx = Len(streams)
                          THEN png \cup {"harp_temporal_alignment.png"}
                          ELSE png
                /\ UNCHANGED err
    /\ UNCHANGED <<recordings_left, streams, events, harpvars,
                   anchorvars, avars, cvars, make_plots, pdf, rerun,
                   first_run, report_file>>

\* a loop that ends with the first recording
MoreRecordingsNever(left) == FALSE

\* line 779: the loop over the recordings has another recording to take
MoreRecordings(left) == left > 0

\* line 779, the loop over the recordings, and line 796, its `continue`
HarpNextRecording ==
    /\ pc = "harp_end_recording"
    /\ IF MoreRecordings(recordings_left)
       THEN /\ pc' = "harp_load"
            /\ streams' = <<>>
            /\ events' = <<>>
            /\ fs' = <<>>
            /\ stream_idx' = 0
            /\ written' = <<>>
            /\ line_stats' = <<>>
            /\ harp_candidates' = <<>>
            /\ typed' = 0
            /\ harp_line' = 0
            /\ barcode' = <<>>
            /\ start_times' = <<>>
            /\ harp_times' = <<>>
       ELSE /\ pc' = "harp_done"
            /\ UNCHANGED <<streams, events, fs, stream_idx, written,
                           line_stats, harp_candidates, typed, harp_line,
                           barcode, start_times, harp_times>>
    /\ UNCHANGED <<err, recordings_left, method, anchorvars, avars, cvars,
                   runvars>>

HarpNext ==
    \/ LoadSyncedRecording
    \/ BuildMainAnchors
    \/ WriteMainContinuous
    \/ WriteMainEvents
    \/ SelectStreamEvents
    \/ Reconcile
    \/ CheckCounts
    \/ RemapStream
    \/ WriteStreamContinuous
    \/ WriteStreamEvents
    \/ NextRecording
    \/ StartHarp
    \/ HarpLoadRecording
    \/ HarpSearchLine
    \/ HarpSelectLine
    \/ HarpDecode
    \/ HarpWriteContinuous
    \/ HarpWriteEvents
    \/ HarpNextRecording

SpecHarp == HarpInit /\ [][HarpNext]_vars

HarpTypeOK ==
    /\ pc \in {"load", "main_anchors", "main_continuous", "main_events",
               "select", "reconcile", "check", "remap", "stream_continuous",
               "stream_events", "end_recording", "done", "failed",
               "harp_load", "harp_search", "harp_select", "harp_decode",
               "harp_continuous", "harp_events", "harp_end_recording",
               "harp_done"}
    /\ Len(start_times) = Len(harp_times)

(***************************************************************************)
(* Properties of align_timestamps                                          *)
(***************************************************************************)
MainStream == streams[main_stream_index + 1]

\* the sync events of the stream of the loop as selected at lines 499-516,
\* before any trimming
SelectedForStream ==
    SortBySampleNumber(SelectSyncEvents(events, streams[stream_idx], flip_NIDAQ))

\* the remapper has been called for a stream other than the main stream
RemappedOtherStream ==
    /\ stream_idx # 0
    /\ remap_args # <<>>
    /\ \/ pc \in {"stream_continuous", "stream_events"}
       \/ pc = "failed" /\ err = "ValueError"
             /\ ~ SubtractRaises(DiffLen(Len(events_for_stream)),
                                 DiffLen(Len(main_stream_events)))

\* C2: for a stream other than the main stream the remapper is never called,
\* and no file written, with an anchor list and a target time list of
\* different lengths.
RemapperListsPairUp ==
    /\ RemappedOtherStream => Len(remap_args[1]) = Len(remap_args[2])
    /\ \A d \in DOMAIN fs :
          \A i \in 1..Len(fs[d][TimestampFilename]) :
             Len(fs[d][TimestampFilename][i].anchors)
                = Len(fs[d][TimestampFilename][i].times)

\* |first main sample / main rate - first sample / rate| > 0.1 s for the
\* events selected for the stream of the loop
FirstOffsetOverThreshold ==
    LET m == main_stream_events_archive[1].sample_number
        c == SelectedForStream[1].sample_number
        rm == MainStream.sample_rate
        rc == streams[stream_idx].sample_rate
    IN  10 * Abs(m * rc - c * rm) > rm * rc

CountsDiffer == Len(main_stream_events_archive) # Len(SelectedForStream)

\* C3: when the counts differ and the first events are more than 0.1 s
\* apart, exactly one event is removed, from the front of the longer list,
\* and the shorter list is unchanged.
FrontTrim ==
    (pc = "check" /\ CountsDiffer /\ FirstOffsetOverThreshold) =>
        IF Len(main_stream_events_archive) > Len(SelectedForStream)
        THEN /\ main_stream_events = Tail(main_stream_events_archive)
             /\ events_for_stream = SelectedForStream
        ELSE /\ events_for_stream = Tail(SelectedForStream)
             /\ main_stream_events = main_stream_events_archive

\* the stream of the loop had one event more than the main stream, at the
\* front, and lost it
FrontTrimWitness ==
    /\ pc = "check"
    /\ CountsDiffer
    /\ FirstOffsetOverThreshold
    /\ Len(main_stream_events_archive) = 2
    /\ Len(SelectedForStream) = 3
    /\ SampleNumbers(events_for_stream) = SampleNumbers(main_stream_events)
    /\ events_for_stream = Tail(SelectedForStream)

\* C4: when the counts differ and the first events are at most 0.1 s apart,
\* exactly one event is removed, from the back of the longer list, and the
\* shorter list is unchanged; when the counts are equal nothing is removed.
BackTrim ==
    /\ (pc = "check" /\ CountsDiffer /\ ~ FirstOffsetOverThreshold) =>
          IF Len(main_stream_events_archive) > Len(SelectedForStream)
          THEN /\ main_stream_events
                    = SubSeq(main_stream_events_archive, 1,
                             Len(main_stream_events_archive) - 1)
               /\ events_for_stream = SelectedForStream
          ELSE /\ events_for_stream
                    = SubSeq(SelectedForStream, 1, Len(SelectedForStream) - 1)
               /\ main_stream_events = main_stream_events_archive
    /\ (pc = "check" /\ ~ CountsDiffer) =>
          /\ main_stream_events = main_stream_events_archive
          /\ events_for_stream = SelectedForStream

\* the stream of the loop had one event more than the main stream, at the
\* back, and lost it
BackTrimWitness ==
    /\ pc = "check"
    /\ CountsDiffer
    /\ ~ FirstOffsetOverThreshold
    /\ Len(main_stream_events_archive) = 2
    /\ Len(SelectedForStream) = 3
    /\ SampleNumbers(events_for_stream) = SampleNumbers(main_stream_events)
    /\ events_for_stream = SubSeq(SelectedForStream, 1, 2)

\* C5: a count mismatch that survives the trim is local to its stream: the
\* run does not end on it while streams or recordings are still to be
\* processed.
CountMismatchIsLocal ==
    (pc = "failed" /\ err \in {"AssertionError", "ValueError"}
        /\ Len(main_stream_events) # Len(events_for_stream)) =>
        /\ NextStream(streams, stream_idx) = 0
        /\ recordings_left = 0

\* the stream whose folders are named d[2]
StreamOfFolder(d) ==
    CHOOSE stream \in Range(streams) : stream.folder = d[2]

\* the length a timestamps.npy must keep: that of the sample counter of the
\* stream, or that of sample_numbers.npy in a TTL folder
LengthToKeep(d) ==
    IF d[1] = "continuous"
    THEN Len(SampleCounter(StreamOfFolder(d)))
    ELSE Len(fs[d][SampleNumbersFilename])

\* C6: every array that align_timestamps or align_timestamps_harp has
\* written to a timestamps.npy file is as long as the sample counter of the
\* stream (continuous folder) or as sample_numbers.npy, the raw events of all
\* lines and states (TTL folder), and as long as each array it has replaced,
\* which the archives of the folder hold
ReplacementKeepsLength ==
    \A d \in DOMAIN fs :
        /\ Len(fs[d][TimestampFilename]) = LengthToKeep(d)
        /\ \A f \in ArchiveNames :
              Exists(fs[d], f) => Len(fs[d][f]) = LengthToKeep(d)

\* both functions have replaced the event timestamps of a stream that has
\* more raw events than anchors
ReplacementKeepsLengthWitness ==
    /\ pc = "harp_done"
    /\ method = "harp"
    /\ \E d \in DOMAIN fs :
          /\ d[1] = "events"
          /\ Exists(fs[d], OriginalTimestampFilename)
          /\ Exists(fs[d], LocalTimestampFilename)
          /\ fs[d][TimestampFilename][1].anchors = start_times
          /\ fs[d][LocalTimestampFilename][1].times = main_stream_times
          /\ Len(fs[d][TimestampFilename]) > Len(main_stream_times)
          /\ main_stream_times # <<>>

\* C7: no timestamps file is written from fewer than two anchors.
NeverWrittenFromFewerThanTwoAnchors ==
    \A d \in DOMAIN fs :
       \A i \in 1..Len(fs[d][TimestampFilename]) :
          LET value == fs[d][TimestampFilename][i]
          IN  value # Acquired(<<value.at>>)[1] => Len(value.anchors) >= 2

\* C8: the anchors of the main stream are in the order of their sample
\* numbers, which increase strictly; anchor k has the time
\* (sample_k - sample_0) / rate, so the first time is 0 and the times do not
\* decrease.
MainAnchorsOrdered ==
    pc \in {"main_continuous", "main_events"} =>
        /\ Len(main_stream_times) = Len(main_stream_event_sample)
        /\ Range(main_stream_event_sample)
              = {e.sample_number :
                    e \in Range(SelectSyncEvents(events, MainStream, flip_NIDAQ))}
        /\ \A k \in 1..(Len(main_stream_event_sample) - 1) :
              /\ main_stream_event_sample[k] < main_stream_event_sample[k + 1]
              /\ main_stream_times[k] <= main_stream_times[k + 1]
        /\ \A k \in 1..Len(main_stream_times) :
              main_stream_times[k]
                 = main_stream_event_sample[k] - main_stream_event_sample[1]
        /\ main_stream_times[1] = 0

\* the anchors of the main stream were built from events persisted out of
\* order
MainAnchorsOrderedWitness ==
    /\ pc = "main_continuous"
    /\ Len(main_stream_event_sample) >= 2
    /\ SampleNumbers(SelectSyncEvents(events, MainStream, flip_NIDAQ))
          # main_stream_event_sample

\* the events that are to be the anchors of a stream: its own events on the
\* sync line, of state 0 for a PXIe stream when flip_NIDAQ is set, of
\* state 1 otherwise
ExpectedAnchors(stream) ==
    {e \in Range(events) :
        /\ e.stream_name = stream.stream_name
        /\ e.processor_id = stream.source_node_id
        /\ e.line = local_sync_line
        /\ e.state = IF flip_NIDAQ /\ stream = NIDAQ THEN 0 ELSE 1}

\* C9: the anchors of every stream, main or not, are exactly its own events
\* on the sync line with state 1, or state 0 when flip_NIDAQ is set and the
\* stream name contains "PXIe".
AnchorsAreOwnSyncEvents ==
    /\ pc = "main_continuous" =>
          Range(main_stream_events) = ExpectedAnchors(MainStream)
    /\ pc = "reconcile" =>
          /\ Range(events_for_stream) = ExpectedAnchors(streams[stream_idx])
          /\ Range(main_stream_events) = ExpectedAnchors(MainStream)

\* the falling edges of the NI-DAQ stream were selected under flip_NIDAQ
\* next to the rising edges of a probe
AnchorsAreOwnSyncEventsWitness ==
    /\ pc = "reconcile"
    /\ flip_NIDAQ
    /\ streams[stream_idx] = NIDAQ
    /\ events_for_stream # <<>>
    /\ main_stream_events # <<>>
    /\ \A e \in Range(events_for_stream) : e.state = 0
    /\ \A e \in Range(main_stream_events) : e.state = 1

(***************************************************************************)
(* clean_up_sample_chunks                                                  *)
(***************************************************************************)
\* a plausible slip: an interval counts as a discontinuity unless it is 0
DiscontinuitiesNonZero(sample_number) ==
    Ascending({i \in 0..(Len(sample_number) - 2) :
                  sample_number[i + 2] - sample_number[i + 1] # 0})

\* lines 47-48: the 0-based positions of the intervals that are not 1
Discontinuities(sample_number) ==
    Ascending({i \in 0..(Len(sample_number) - 2) :
                  sample_number[i + 2] - sample_number[i + 1] # 1})

\* line 55: from this many discontinuities on, no chunks are computed
DiscontinuityLimit == 3

\* lines 64-66: the 0-based position of the first sample of every chunk
ChunkStarts(discontinuities) ==
    <<0>> \o [k \in 1..Len(discontinuities) |-> discontinuities[k] + 1]

\* lines 67-78: the first and the last sample number of every chunk
SampleRanges(sample_number, starts) ==
    [k \in 1..Len(starts) |->
        IF k = Len(starts)
        THEN <<sample_number[starts[k] + 1],
        sample_number[Len(sample_number)]>>
        ELSE <<sample_number[starts[k] + 1], sample_number[starts[k + 1]]>>]

\* line 80: np.argmax of the spans, the first of the largest (1-based)
MajorInd(sample_ranges) ==
    LET span(k) == sample_ranges[k][2] - sample_ranges[k][1]
    IN  Min({k \in 1..Len(sample_ranges) :
                \A j \in 1..Len(sample_ranges) : span(j) <= span(k)})

\* line 84: np.delete of one row
DeleteRow(rows, k) ==
    [j \in 1..(Len(rows) - 1) |-> IF j < k THEN rows[j] ELSE rows[j + 1]]

\* lines 88-95: neither bound of the range lies within the major range
NoOverlap(range, major_min, major_max) ==
    /\ (range[1] - major_min) * (range[1] - major_max) > 0
    /\ (range[2] - major_min) * (range[2] - major_max) > 0

ChunksReturn(realign, residual_ranges, message) ==
    [raised |-> "", realign |-> realign, residual_ranges |-> residual_ranges,
     message |-> message]

ChunksRaise(exception) ==
    [raised |-> exception, realign |-> FALSE, residual_ranges |-> <<>>,
     message |-> ""]

\* lines 46-124
CleanUpSampleChunks(sample_number) ==
    LET discontinuities == Discontinuities(sample_number)
    IN  IF Len(discontinuities) = 0
        THEN ChunksReturn(TRUE, <<>>, "")
        ELSE IF Len(discontinuities) >= DiscontinuityLimit
        THEN \* line 120: residual_ranges is still the empty list of line 46
             ChunksRaise("IndexError")
        ELSE LET sample_ranges ==
                     SampleRanges(sample_number, ChunkStarts(discontinuities))
                 major_ind == MajorInd(sample_ranges)
                 major_min == sample_ranges[major_ind][1]
                 major_max == sample_ranges[major_ind][2]
                 residual_ranges == DeleteRow(sample_ranges, major_ind)
                 no_overlaps ==
                     [k \in 1..Len(residual_ranges) |->
                         NoOverlap(residual_ranges[k], major_min, major_max)]
                 all_clear == \A k \in 1..Len(no_overlaps) : no_overlaps[k]
                 some_clear == \E k \in 1..Len(no_overlaps) : no_overlaps[k]
                 \* line 120
                 realign == residual_ranges[1][1] = sample_number[1]
             IN  IF all_clear
                 THEN ChunksReturn(realign, residual_ranges, "removable")
                 ELSE IF some_clear
                 THEN \* line 105: an ndarray has no attribute delete
                      ChunksRaise("AttributeError")
                 ELSE ChunksReturn(realign, residual_ranges, "overlap")

(***************************************************************************)
(* SpecChunks: one call of clean_up_sample_chunks on any sample counter    *)
(***************************************************************************)
SampleCounters ==
    UNION {[1..n -> 0..MaxCounterVal] : n \in 0..MaxCounterLen}

ChunksInit ==
    /\ RunDefaults
    /\ ArchiveParked
    /\ HarpParked
    /\ c_sample_number \in SampleCounters
    /\ c_pc = "call"
    /\ c_result = <<>>
    /\ pc = "parked"
    /\ err = ""
    /\ flip_NIDAQ = FALSE
    /\ recordings_left = 0
    /\ streams = <<>>
    /\ events = <<>>
    /\ fs = <<>>
    /\ stream_idx = 0
    /\ main_stream_events = <<>>
    /\ main_stream_event_sample = <<>>
    /\ main_stream_times = <<>>
    /\ main_stream_events_archive = <<>>
    /\ events_for_stream = <<>>
    /\ ts_stream = <<>>
    /\ remap_args = <<>>
    /\ written = <<>>

\* the call returns
CleanUpReturns ==
    /\ c_pc = "call"
    /\ CleanUpSampleChunks(c_sample_number).raised = ""
    /\ c_result' = CleanUpSampleChunks(c_sample_number)
    /\ c_pc' = "returned"
    /\ UNCHANGED <<c_sample_number, avars, alignvars, harpvars, runvars>>

\* the call raises
CleanUpRaises ==
    /\ c_pc = "call"
    /\ CleanUpSampleChunks(c_sample_number).raised # ""
    /\ c_result' = CleanUpSampleChunks(c_sample_number)
    /\ c_pc' = "raised"
    /\ UNCHANGED <<c_sample_number, avars, alignvars, harpvars, runvars>>

ChunksNext ==
    \/ CleanUpReturns
    \/ CleanUpRaises

SpecChunks == ChunksInit /\ [][ChunksNext]_vars

\* every interval of the counter is 1
Continuous(sample_number) ==
    \A i \in 1..(Len(sample_number) - 1) :
       sample_number[i + 1] = sample_number[i] + 1

\* C10: on a sample counter all of whose intervals are 1 the function
\* returns realign = True and no residual ranges.
ContinuousCounterIsRealignable ==
    (c_pc # "call" /\ Continuous(c_sample_number)) =>
        /\ c_pc = "returned"
        /\ c_result.realign = TRUE
        /\ c_result.residual_ranges = <<>>

\* the call on the counter 0, 1, 2, 3, 4 has returned
ContinuousCounterWitness ==
    /\ c_pc = "returned"
    /\ c_sample_number = <<0, 1, 2, 3, 4>>
    /\ c_result.realign = TRUE
    /\ c_result.residual_ranges = <<>>

\* the number of positions of a counter where the interval is not 1
NumDiscontinuities(sample_number) ==
    Cardinality({i \in 1..(Len(sample_number) - 1) :
                    sample_number[i + 1] - sample_number[i] # 1})

\* C11: on a sample counter with three or more discontinuities the function
\* returns to its caller, with realign = False; it does not raise.
ManyDiscontinuitiesAreAdvisory ==
    (c_pc # "call" /\ NumDiscontinuities(c_sample_number) >= 3) =>
        /\ c_pc = "returned"
        /\ c_result.realign = FALSE

\* the maximal runs of a counter, each as <<first position, last position>>:
\* within a run every interval is 1, and no run can be extended
Runs(sample_number) ==
    {r \in (1..Len(sample_number)) \X (1..Len(sample_number)) :
        /\ r[1] <= r[2]
        /\ \A k \in r[1]..(r[2] - 1) :
              sample_number[k + 1] - sample_number[k] = 1
        /\ r[1] = 1 \/ sample_number[r[1]] - sample_number[r[1] - 1] # 1
        /\ r[2] = Len(sample_number)
              \/ sample_number[r[2] + 1] - sample_number[r[2]] # 1}

\* the [first value, last value] pairs of the runs, in the order of the runs
RunRanges(sample_number) ==
    LET firsts == Ascending({r[1] : r \in Runs(sample_number)})
    IN  [k \in 1..Len(firsts) |->
            LET r == CHOOSE run \in Runs(sample_number) : run[1] = firsts[k]
            IN  <<sample_number[r[1]], sample_number[r[2]]>>]

\* a sequence without its element m
AllBut(seq, m) ==
    SubSeq(seq, 1, m - 1) \o SubSeq(seq, m + 1, Len(seq))

\* run m has the largest span of all runs
LargestSpan(ranges, m) ==
    \A j \in 1..Len(ranges) :
        ranges[j][2] - ranges[j][1] <= ranges[m][2] - ranges[m][1]

\* C12: on a counter with one or two discontinuities the function returns,
\* as residual ranges, the [first value, last value] pairs of all maximal
\* runs but a run of the largest span, in the order of the runs.
ResidualsAreTheOtherRuns ==
    (c_pc # "call" /\ NumDiscontinuities(c_sample_number) \in {1, 2}) =>
        /\ c_pc = "returned"
        /\ \E m \in 1..Len(RunRanges(c_sample_number)) :
              /\ LargestSpan(RunRanges(c_sample_number), m)
              /\ c_result.residual_ranges
                    = AllBut(RunRanges(c_sample_number), m)

\* the first run of the largest span
MainRange(sample_number) ==
    LET ranges == RunRanges(sample_number)
    IN  ranges[Min({m \in 1..Len(ranges) : LargestSpan(ranges, m)})]

\* a bound lies strictly inside a range
StrictlyInside(bound, range) == range[1] < bound /\ bound < range[2]

\* neither bound of the residual range lies strictly inside the main range
Removable(residual, main) ==
    /\ ~ StrictlyInside(residual[1], main)
    /\ ~ StrictlyInside(residual[2], main)

\* C13: the function returns, and reports that the residual chunks can be
\* removed exactly when no residual range has a bound strictly inside the
\* main range; otherwise it reports the overlap.
RemovableIffNoBoundInside ==
    (c_pc # "call" /\ NumDiscontinuities(c_sample_number) \in {1, 2}) =>
        /\ c_pc = "returned"
        /\ LET main == MainRange(c_sample_number)
               all_removable ==
                   \A k \in 1..Len(c_result.residual_ranges) :
                       Removable(c_result.residual_ranges[k], main)
           IN  /\ all_removable <=> c_result.message = "removable"
               /\ ~ all_removable <=> c_result.message = "overlap"

\* when the function returns, its residual ranges are those of C12
ReturnedResidualsAreTheOtherRuns ==
    (c_pc = "returned" /\ NumDiscontinuities(c_sample_number) \in {1, 2}) =>
        \E m \in 1..Len(RunRanges(c_sample_number)) :
            /\ LargestSpan(RunRanges(c_sample_number), m)
            /\ c_result.residual_ranges = AllBut(RunRanges(c_sample_number), m)


(***************************************************************************)
(* Properties of align_timestamps_harp and search_harp_line               *)
(***************************************************************************)
\* the lines that have state-1 events on the NI-DAQ stream
ScannedLines ==
    {e.line : e \in {ev \in Range(events) :
                        /\ ev.stream_name = NidaqStream(streams).stream_name
                        /\ ev.processor_id = NidaqStream(streams).source_node_id
                        /\ ev.state = 1}}

\* the folders that align_timestamps_harp has written
HarpWritten == {d \in DOMAIN fs : Exists(fs[d], LocalTimestampFilename)}

\* align_timestamps_harp has left the files of the recording as it found
\* them
HarpLeftFilesAlone ==
    /\ HarpWritten = {}
    /\ method = "harp_only" => fs = InitialFolders(streams, events)

\* C14: the candidate lines that search_harp_line returns are exactly the
\* scanned lines (those with state-1 events on the NI-DAQ stream) whose
\* p-value is strictly greater than 0.95 and whose fraction of short gaps is
\* strictly greater than 0.5, each of them once
CandidatesPassBothTests ==
    pc = "harp_select" =>
        /\ DOMAIN line_stats = ScannedLines
        /\ Range(harp_candidates) =
               {l \in ScannedLines : /\ line_stats[l].p_value > 95
                                     /\ line_stats[l].p_short > 50}
        /\ Len(harp_candidates) = Cardinality(Range(harp_candidates))

\* two lines were scanned: one passes both tests, the other has its
\* short-gap fraction exactly at the threshold and is not returned
CandidatesPassBothTestsWitness ==
    /\ pc = "harp_select"
    /\ Len(harp_candidates) = 1
    /\ \E l \in ScannedLines :
          /\ l \notin Range(harp_candidates)
          /\ line_stats[l].p_value > 95
          /\ line_stats[l].p_short = 50

\* C15: when search_harp_line returns no candidate for a recording,
\* align_timestamps_harp raises nothing, leaves every timestamps file of the
\* recording as it was and creates no archive, and goes on with the next
\* recording of the session when there is one
NoHarpLineSkipsRecordingStep ==
    /\ (pc = "harp_select" /\ harp_candidates = <<>>) =>
          /\ pc' = "harp_end_recording"
          /\ err' = ""
          /\ fs' = fs
          /\ HarpLeftFilesAlone'
    /\ (pc = "harp_end_recording" /\ harp_candidates = <<>>
            /\ recordings_left > 0) =>
          pc' = "harp_load"

SeveralCandidatesNeedTypedLine ==
    Len(harp_candidates) > 1 =>
        /\ harp_line # 0 => (typed # 0 /\ harp_line = typed)
        /\ typed = 0 =>
              /\ pc \in {"harp_select", "failed"}
              /\ harp_line = 0
              /\ HarpLeftFilesAlone
        /\ (typed = 0 /\ pc = "failed") => err \in {"EOFError", "ValueError"}

\* two candidates, the second of them typed at the prompt, and every
\* folder of the recording written on the Harp clock
SeveralCandidatesWitness ==
    /\ Len(harp_candidates) > 1
    /\ typed = harp_candidates[2]
    /\ harp_line = typed
    /\ pc = "harp_done"
    /\ HarpWritten = DOMAIN fs

\* C17: the anchors are made of the barcodes that decode, in their order;
\* a barcode whose decoding fails is left out; the run goes on when at
\* least one barcode decodes, and fails with no file written when none does
FailingBarcodesAreDiscardedStep ==
    pc = "harp_decode" =>
        IF ValidBarcodes(barcode') # <<>>
        THEN /\ pc' = "harp_continuous"
             /\ start_times' = ValidBarcodes(barcode')
             /\ Len(harp_times') = Len(start_times')
        ELSE /\ pc' = "failed"
             /\ fs' = fs

FailingBarcodesAreDiscarded == [][FailingBarcodesAreDiscardedStep]_vars

\* the same for the barcodes on which convert_barcode raises IndexError or
\* nothing
IndexErrorBarcodesAreDiscarded ==
    [][Uncaught(barcode') = <<>> => FailingBarcodesAreDiscardedStep]_vars

(***************************************************************************)
(* The order of the writes of align_timestamps                            *)
(***************************************************************************)
\* the streams of a recording other than the reference stream, in stream
\* order
RECURSIVE OtherStreams(_)
OtherStreams(strs) ==
    IF strs = <<>> THEN <<>>
    ELSE LET before == OtherStreams(SubSeq(strs, 1, Len(strs) - 1))
         IN  IF Len(strs) = main_stream_index + 1
             THEN before ELSE Append(before, strs[Len(strs)])

\* the continuous folder of a stream and then its TTL folder
FoldersOf(stream) ==
    <<(<<"continuous", stream.folder>>), (<<"events", stream.folder>>)>>

\* the folders of a recording in the order of the claim: those of the
\* reference stream, then those of every other stream
WriteOrder(strs) ==
    FoldersOf(strs[main_stream_index + 1])
        \o Flatten([i \in 1..Len(OtherStreams(strs)) |->
                        FoldersOf(OtherStreams(strs)[i])])

RerunInit ==
    /\ ArchiveParked
    /\ ChunksParked
    /\ RunDefaults
    /\ method \in {"local", "harp_only"}
    /\ pc = IF method = "harp_only" THEN "harp_load" ELSE "load"
    /\ recordings_left = 1
    /\ flip_NIDAQ = FALSE
    /\ err = ""
    /\ streams = <<>>
    /\ events = <<>>
    /\ fs = <<>>
    /\ stream_idx = 0
    /\ main_stream_events = <<>>
    /\ main_stream_event_sample = <<>>
    /\ main_stream_times = <<>>
    /\ main_stream_events_archive = <<>>
    /\ events_for_stream = <<>>
    /\ ts_stream = <<>>
    /\ remap_args = <<>>
    /\ written = <<>>
    /\ line_stats = <<>>
    /\ harp_candidates = <<>>
    /\ typed = 0
    /\ harp_line = 0
    /\ barcode = <<>>
    /\ start_times = <<>>
    /\ harp_times = <<>>

\* lines 280-341 and 743-789, called again on the directory of a run that
\* has ended: the function starts afresh on the files that the first run
\* left, and reads the events and the sample numbers again; the files that
\* the first run left are kept for comparison
RunAgain ==
    /\ pc \in {"done", "harp_done"}
    /\ ~ rerun
    /\ rerun' = TRUE
    /\ first_run' = [fs |-> fs]
    /\ reported' = {}
    /\ written' = <<>>
    /\ pc' = IF method = "harp_only" THEN "harp_search" ELSE "main_anchors"
    /\ stream_idx' = 0
    /\ main_stream_events' = <<>>
    /\ main_stream_event_sample' = <<>>
    /\ main_stream_times' = <<>>
    /\ main_stream_events_archive' = <<>>
    /\ events_for_stream' = <<>>
    /\ ts_stream' = <<>>
    /\ remap_args' = <<>>
    /\ line_stats' = <<>>
    /\ harp_candidates' = <<>>
    /\ typed' = 0
    /\ harp_line' = 0
    /\ barcode' = <<>>
    /\ start_times' = <<>>
    /\ harp_times' = <<>>
    /\ UNCHANGED <<err, flip_NIDAQ, recordings_left, streams, events, fs,
                   method, make_plots, pdf, png, avars, cvars, report_file>>

RerunNext ==
    \/ LoadSyncedRecording
    \/ BuildMainAnchors
    \/ WriteMainContinuous
    \/ WriteMainEvents
    \/ SelectStreamEvents
    \/ Reconcile
    \/ CheckCounts
    \/ RemapStream
    \/ WriteStreamContinuous
    \/ WriteStreamEvents
    \/ NextRecording
    \/ HarpLoadRecording
    \/ HarpSearchLine
    \/ HarpSelectLine
    \/ HarpDecode
    \/ HarpWriteContinuous
    \/ HarpWriteEvents
    \/ HarpNextRecording
    \/ RunAgain

SpecRerun == RerunInit /\ [][RerunNext]_vars

\* the sample numbers of a folder: the sample counter of the stream, or
\* sample_numbers.npy in a TTL folder
SampleNumbersOf(d) ==
    IF d[1] = "continuous"
    THEN SampleCounter(StreamOfFolder(d))
    ELSE fs[d][SampleNumbersFilename]

\* the current timestamps of a folder were computed from timestamps that a
\* run of align_timestamps_harp had computed
FromHarpTimestamps(d) == fs[d][TimestampFilename][1].at.anchors # <<>>

\* a run on a directory that the same function has already aligned prints,
\* for every folder whose timestamps it replaces, that the timestamps were
\* already archived; align_timestamps computes its timestamps from the
\* sample numbers, never from the current timestamps
AlignedFolderIsReported ==
    /\ (rerun /\ method = "local") => Range(written) \subseteq reported
    /\ method = "harp_only" =>
          \A d \in HarpWritten : FromHarpTimestamps(d) => d \in reported
    /\ method = "local" =>
          \A d \in Range(written) :
              [i \in 1..Len(fs[d][TimestampFilename]) |->
                  fs[d][TimestampFilename][i].at] = SampleNumbersOf(d)

\* a second run of align_timestamps_harp has ended: every folder holds
\* timestamps computed from those of the first run, and was reported
AlignedFolderIsReportedWitness ==
    /\ rerun
    /\ method = "harp_only"
    /\ pc = "harp_done"
    /\ reported = DOMAIN fs
    /\ \A d \in DOMAIN fs : FromHarpTimestamps(d)

(***************************************************************************)
(* SpecPlots: align_timestamps, or align_timestamps_harp, run on a         *)
(* recording with the default arguments and then, with other values of     *)
(* make_plots and pdf, on a copy of the same recording                     *)
(***************************************************************************)
PlotsInit ==
    /\ ArchiveParked
    /\ ChunksParked
    /\ RunDefaults
    /\ method \in {"local", "harp_only"}
    /\ pc = "enter"
    /\ recordings_left = 1
    /\ flip_NIDAQ = FALSE
    /\ err = ""
    /\ streams = <<>>
    /\ events = <<>>
    /\ fs = <<>>
    /\ stream_idx = 0
    /\ main_stream_events = <<>>
    /\ main_stream_event_sample = <<>>
    /\ main_stream_times = <<>>
    /\ main_stream_events_archive = <<>>
    /\ events_for_stream = <<>>
    /\ ts_stream = <<>>
    /\ remap_args = <<>>
    /\ written = <<>>
    /\ line_stats = <<>>
    /\ harp_candidates = <<>>
    /\ typed = 0
    /\ harp_line = 0
    /\ barcode = <<>>
    /\ start_times = <<>>
    /\ harp_times = <<>>

\* lines 313-316 and 764-766: a report cannot be filled without plots
EnterRun ==
    /\ pc = "enter"
    /\ IF pdf /\ ~ make_plots
       THEN Raise("AssertionError")
       ELSE /\ pc' = IF method = "harp_only" THEN "harp_load" ELSE "load"
            /\ UNCHANGED err
    /\ UNCHANGED <<flip_NIDAQ, recordings_left, streams, events, fs,
                   stream_idx, main_stream_events, main_stream_event_sample,
                   main_stream_times, main_stream_events_archive,
                   events_for_stream, ts_stream, remap_args, written,
                   avars, cvars, harpvars, runvars>>

\* the values of make_plots and pdf other than the defaults
OtherArguments ==
    {a \in [make_plots : BOOLEAN, pdf : BOOLEAN] : ~ (a.make_plots /\ ~ a.pdf)}

\* lines 280-288 and 743-748: the function is called on a copy of the data
\* of a run that has ended, with other values of make_plots and pdf; what the
\* first run read and left is kept for comparison
RunOnCopy ==
    /\ pc \in {"done", "failed", "harp_done"}
    /\ first_run = <<>>
    /\ first_run' = [streams |-> streams, events |-> events, fs |-> fs,
                     line_stats |-> line_stats,
                     harp_candidates |-> harp_candidates,
                     typed |-> typed, barcode |-> barcode,
                     pc |-> pc, err |-> err]
    /\ \E a \in OtherArguments :
          /\ make_plots' = a.make_plots
          /\ pdf' = a.pdf
    /\ pc' = "enter"
    /\ err' = ""
    /\ recordings_left' = 1
    /\ png' = {}
    /\ reported' = {}
    /\ streams' = <<>>
    /\ events' = <<>>
    /\ fs' = <<>>
    /\ written' = <<>>
    /\ stream_idx' = 0
    /\ main_stream_events' = <<>>
    /\ main_stream_event_sample' = <<>>
    /\ main_stream_times' = <<>>
    /\ main_stream_events_archive' = <<>>
    /\ events_for_stream' = <<>>
    /\ ts_stream' = <<>>
    /\ remap_args' = <<>>
    /\ line_stats' = <<>>
    /\ harp_candidates' = <<>>
    /\ typed' = 0
    /\ harp_line' = 0
    /\ barcode' = <<>>
    /\ start_times' = <<>>
    /\ harp_times' = <<>>
    /\ UNCHANGED <<flip_NIDAQ, method, rerun, report_file, avars, cvars>>

\* lines 329-341 and 779-784, on the copy: the recording that the first
\* run read
LoadCopy ==
    /\ pc \in {"load", "harp_load"}
    /\ first_run # <<>>
    /\ recordings_left > 0
    /\ streams' = first_run.streams
    /\ events' = first_run.events
    /\ fs' = InitialFolders(streams', events')
    /\ recordings_left' = recordings_left - 1
    /\ pc' = IF pc = "load" THEN "main_anchors" ELSE "harp_search"
    /\ UNCHANGED <<err, flip_NIDAQ, stream_idx, main_stream_events,
                   main_stream_event_sample, main_stream_times,
                   main_stream_events_archive, events_for_stream, ts_stream,
                   remap_args, written, avars, cvars, harpvars, runvars>>

\* the run on the copy reads what the first run read: the same statistics
\* of the lines, the same answer at the prompt and the same barcodes
SameInputs ==
    first_run # <<>> =>
        /\ pc = "harp_search" => line_stats' = first_run.line_stats
        /\ pc = "harp_select" =>
              /\ typed' = first_run.typed
              /\ pc' = "failed" => err' = first_run.err
        /\ pc = "harp_decode" => barcode' = first_run.barcode

PlotsNext ==
    \/ EnterRun
    \/ first_run = <<>> /\ LoadRecording
    \/ LoadCopy
    \/ BuildMainAnchors
    \/ WriteMainContinuous
    \/ WriteMainEvents
    \/ SelectStreamEvents
    \/ Reconcile
    \/ CheckCounts
    \/ RemapStream
    \/ WriteStreamContinuous
    \/ WriteStreamEvents
    \/ NextRecording
    \/ first_run = <<>> /\ HarpLoadRecording
    \/ HarpSearchLine /\ SameInputs
    \/ HarpSelectLine /\ SameInputs
    \/ HarpDecode /\ SameInputs
    \/ HarpWriteContinuous
    \/ HarpWriteEvents
    \/ HarpNextRecording
    \/ RunOnCopy

SpecPlots == PlotsInit /\ [][PlotsNext]_vars

\* the run has ended
Ended == pc \in {"done", "failed", "harp_done"}

\* C18: a run with a report, or without plots, on a copy of the data ends
\* as the run with the default arguments (plots, no report) does: it fails
\* or not as that run, with the same timestamps and archive files in every
\* folder, and search_harp_line returns the same candidates; without
\* make_plots align_timestamps never saves its figure
PlotsDoNotChangeFiles ==
    /\ (first_run # <<>> /\ Ended /\ ~ (pdf /\ ~ make_plots)) =>
          /\ fs = first_run.fs
          /\ harp_candidates = first_run.harp_candidates
          /\ (pc = "failed") = (first_run.pc = "failed")
    /\ ~ make_plots => "temporal_alignment.png" \notin png

\* the run without plots on the copy has ended after the stream loop and
\* left the timestamps and archives of the first run, and no figure
PlotsDoNotChangeFilesWitness ==
    /\ first_run # <<>>
    /\ ~ make_plots
    /\ ~ pdf
    /\ pc = "done"
    /\ Len(written) > 2
    /\ fs = first_run.fs
    /\ png = {}

(***************************************************************************)
(* The files a completed run leaves                                        *)
(***************************************************************************)
\* the timestamps of a folder as acquired, before any run
PriorTimestamps(d) == InitialFolders(streams, events)[d][TimestampFilename]

\* every value of the array was given by the remapper, for the sample
\* number at the same place of the acquired array
AlignedFrom(new, prior) ==
    /\ Len(new) = Len(prior)
    /\ \A i \in 1..Len(new) :
          /\ new[i].at = prior[i].at
          /\ new[i].anchors # <<>>
          /\ Len(new[i].times) = Len(new[i].anchors)

\* C21: when align_timestamps has completed a recording of a dataset without
\* archive files, every folder of every stream (continuous and TTL events)
\* holds an archive file named by original_timestamp_filename with the
\* timestamps the folder had before, and a current timestamps.npy with the
\* aligned timestamps; so at least one original_timestamps.npy exists.
ProcessedFoldersHoldArchiveAndAligned ==
    pc \in {"end_recording", "done"} =>
        /\ Range(written) = DOMAIN fs
        /\ \A d \in DOMAIN fs :
              /\ Exists(fs[d], original_timestamp_filename)
              /\ fs[d][original_timestamp_filename] = PriorTimestamps(d)
              /\ Exists(fs[d], TimestampFilename)
              /\ AlignedFrom(fs[d][TimestampFilename], PriorTimestamps(d))
        /\ \E d \in DOMAIN fs : Exists(fs[d], OriginalTimestampFilename)

\* a run has completed on a rig of three streams, one of which lost an
\* event in the reconciliation
ProcessedFoldersWitness ==
    /\ pc = "done"
    /\ Len(streams) = 3
    /\ Len(written) = 6
    /\ Len(main_stream_events) < Len(main_stream_events_archive)
    /\ \A d \in DOMAIN fs :
          fs[d][OriginalTimestampFilename] # fs[d][TimestampFilename]

(***************************************************************************)
(* The archives that align_timestamps followed by align_timestamps_harp    *)
(* leaves                                                                  *)
(***************************************************************************)
\* the name under which the tests look for the archive of the locally
\* synchronized timestamps (test_generate_report.py, lines 143 and 178)
LocalsyncTimestampFilename == "localsync_timestamps.npy"

\* align_timestamps_harp has ended after align_timestamps, and has found and
\* decoded a Harp line on the recording
PipelineCompletedWithHarpLine ==
    /\ method = "harp"
    /\ pc = "harp_done"
    /\ harp_candidates # <<>>
    /\ start_times # <<>>

\* C22: after align_timestamps followed by align_timestamps_harp on a dataset
\* with a Harp line, at least one folder holds original_timestamps.npy and at
\* least one folder holds localsync_timestamps.npy.
PipelineLeavesBothArchives ==
    PipelineCompletedWithHarpLine =>
        /\ \E d \in DOMAIN fs : Exists(fs[d], OriginalTimestampFilename)
        /\ \E d \in DOMAIN fs : Exists(fs[d], LocalsyncTimestampFilename)

\* what the code leaves instead: every folder holds original_timestamps.npy
\* and local_timestamps.npy, and no file of the other name exists
PipelineLeavesLocalArchive ==
    PipelineCompletedWithHarpLine =>
        \A d \in DOMAIN fs :
            /\ Exists(fs[d], OriginalTimestampFilename)
            /\ Exists(fs[d], LocalTimestampFilename)
            /\ ~ Exists(fs[d], LocalsyncTimestampFilename)

(***************************************************************************)
(* SpecReport: a call of generate_qc_report on a directory as acquired     *)
(***************************************************************************)
\* the values of timestamp_alignment_method: the two that name an
\* alignment, 'none', and a value that is none of the three
Methods == {"local", "harp", "none", "other"}

\* generate_report.py lines 30-88: the arguments of the call and the report
\* before anything is read; the report is passed to the alignment functions,
\* which are left their default make_plots
ReportInit ==
    /\ ArchiveParked
    /\ ChunksParked
    /\ method \in Methods
    /\ make_plots = TRUE
    /\ pdf = TRUE
    /\ png = {}
    /\ reported = {}
    /\ rerun = FALSE
    /\ first_run = <<>>
    /\ report_file = FALSE
    /\ pc = "stream_info"
    /\ err = ""
    /\ flip_NIDAQ \in BOOLEAN
    /\ recordings_left = 1
    /\ streams = <<>>
    /\ events = <<>>
    /\ fs = <<>>
    /\ stream_idx = 0
    /\ main_stream_events = <<>>
    /\ main_stream_event_sample = <<>>
    /\ main_stream_times = <<>>
    /\ main_stream_events_archive = <<>>
    /\ events_for_stream = <<>>
    /\ ts_stream = <<>>
    /\ remap_args = <<>>
    /\ written = <<>>
    /\ line_stats = <<>>
    /\ harp_candidates = <<>>
    /\ typed = 0
    /\ harp_line = 0
    /\ barcode = <<>>
    /\ start_times = <<>>
    /\ harp_times = <<>>

\* generate_report.py line 90 and lines 131-180, get_stream_info: the
\* session of the directory is read; the alignment functions read the same
\* session again (lines 318-341 and 768-784 of temporal_alignment.py)
GetStreamInfo ==
    /\ pc = "stream_info"
    /\ \E r \in SyncedRecordings :
         /\ Load(r)
         /\ fs' = InitialFolders(r.layout, events')
    /\ pc' = "choose_alignment"
    /\ UNCHANGED <<err, flip_NIDAQ, avars, cvars, runvars, harpvars>>

\* a test that sends only 'local' to the local alignment
RunsLocalAlignmentLocalOnly(m) == m = "local"

\* generate_report.py lines 93-96
RunsLocalAlignment(m) == m = "local" \/ m = "harp"

\* generate_report.py lines 93-104: align_timestamps is called, or the
\* alignment is passed over
ChooseAlignment ==
    /\ pc = "choose_alignment"
    /\ pc' = IF RunsLocalAlignment(method) THEN "main_anchors" ELSE "qc_plots"
    /\ UNCHANGED <<err, flip_NIDAQ, recordings_left, streams, events, fs,
                   stream_idx, main_stream_events, main_stream_event_sample,
                   main_stream_times, main_stream_events_archive,
                   events_for_stream, ts_stream, remap_args, written,
                   avars, cvars, runvars, harpvars>>

\* generate_report.py lines 114-121, create_qc_plots: reached when the
\* alignment was passed over, when align_timestamps has returned and the
\* method is not 'harp', or when align_timestamps_harp has returned
CreateQcPlots ==
    /\ \/ pc = "qc_plots"
       \/ pc = "done" /\ method # "harp"
       \/ pc = "harp_done"
    /\ pc' = "save_report"
    /\ UNCHANGED <<err, flip_NIDAQ, recordings_left, streams, events, fs,
                   stream_idx, main_stream_events, main_stream_event_sample,
                   main_stream_times, main_stream_events_archive,
                   events_for_stream, ts_stream, remap_args, written,
                   avars, cvars, runvars, harpvars>>

\* generate_report.py lines 123-128: the report is saved and the call
\* returns
SaveReport ==
    /\ pc = "save_report"
    /\ report_file' = TRUE
    /\ pc' = "returned"
    /\ UNCHANGED <<err, flip_NIDAQ, recordings_left, streams, events, fs,
                   stream_idx, main_stream_events, main_stream_event_sample,
                   main_stream_times, main_stream_events_archive,
                   events_for_stream, ts_stream, remap_args, written,
                   avars, cvars, harpvars, make_plots, pdf, png, reported,
                   rerun, first_run>>

ReportNext ==
    \/ GetStreamInfo
    \/ ChooseAlignment
    \/ BuildMainAnchors
    \/ WriteMainContinuous
    \/ WriteMainEvents
    \/ SelectStreamEvents
    \/ Reconcile
    \/ CheckCounts
    \/ RemapStream
    \/ WriteStreamContinuous
    \/ WriteStreamEvents
    \/ NextRecording
    \/ StartHarp
    \/ HarpSearchLine
    \/ HarpSelectLine
    \/ HarpDecode
    \/ HarpWriteContinuous
    \/ HarpWriteEvents
    \/ HarpNextRecording
    \/ CreateQcPlots
    \/ SaveReport

SpecReport == ReportInit /\ [][ReportNext]_vars

\* where the call is while align_timestamps runs, and while
\* align_timestamps_harp runs
LocalAlignmentRuns ==
    pc \in {"main_anchors", "main_continuous", "main_events", "select",
            "reconcile", "check", "remap", "stream_continuous",
            "stream_events", "end_recording"}

HarpAlignmentRuns ==
    pc \in {"harp_search", "harp_select", "harp_decode", "harp_continuous",
            "harp_events", "harp_end_recording"}

\* align_timestamps has run to its last statement (lines 739-740) and has
\* replaced the timestamps of every folder
LocalAlignmentCompleted ==
    /\ "temporal_alignment.png" \in png
    /\ \A d \in DOMAIN fs : Exists(fs[d], OriginalTimestampFilename)

\* align_timestamps_harp has been called: search_harp_line saves its figure
\* for every recording (line 241)
HarpAlignmentStarted == "harp_line_search.png" \in png

\* C23: with 'harp' align_timestamps has run to completion when
\* align_timestamps_harp starts; with 'local' only align_timestamps runs;
\* with 'none' or any other value neither runs and no timestamps or archive
\* file is modified; the report is written after the alignment steps and
\* exists when generate_qc_report returns.
AlignmentStepsInOrder ==
    /\ (HarpAlignmentRuns \/ HarpAlignmentStarted) =>
          method = "harp" /\ LocalAlignmentCompleted
    /\ method = "local" =>
          ~ HarpAlignmentRuns /\ ~ HarpAlignmentStarted /\ HarpWritten = {}
    /\ method \notin {"local", "harp"} =>
          /\ ~ LocalAlignmentRuns /\ ~ HarpAlignmentRuns
          /\ png = {} /\ written = <<>>
          /\ pc # "stream_info" => fs = InitialFolders(streams, events)
    /\ report_file = (pc = "returned")
    /\ pc = "returned" =>
          /\ method \in {"local", "harp"} => LocalAlignmentCompleted
          /\ method = "harp" => HarpAlignmentStarted

\* the call has returned with method 'harp': both functions have replaced
\* timestamps and the report is saved
AlignmentStepsInOrderWitness ==
    /\ pc = "returned"
    /\ method = "harp"
    /\ report_file
    /\ HarpWritten = DOMAIN fs
    /\ \A d \in DOMAIN fs : Exists(fs[d], OriginalTimestampFilename)

(***************************************************************************)
(* The reference anchors over the stream loop                              *)
(***************************************************************************)
\* the times of lines 393-399 for a list of events of the main stream whose
\* first selected event is `first`
ReferenceTimes(evs, first) ==
    [k \in 1..Len(evs) |-> evs[k].sample_number - first.sample_number]

\* the events of the main stream are taken afresh for every stream
ReferenceEventsRestored ==
    pc = "reconcile" => main_stream_events = main_stream_events_archive

\* C24: the reconciliation of every stream other than the main stream starts
\* from the complete main stream events and their times, whatever was
\* removed for the streams before it; so for every stream the main stream
\* events and the main stream times have the same length and are about the
\* same events.
ReconciliationStartsFromFullReference ==
    /\ pc = "reconcile" =>
          /\ main_stream_events = main_stream_events_archive
          /\ main_stream_times
                = ReferenceTimes(main_stream_events_archive,
                                 main_stream_events_archive[1])
    /\ pc \in {"check", "remap", "stream_continuous", "stream_events"} =>
          /\ Len(main_stream_times) = Len(main_stream_events)
          /\ main_stream_times
                = ReferenceTimes(main_stream_events,
                                 main_stream_events_archive[1])

(***************************************************************************)
(* The original timestamps through calls that fail                         *)
(***************************************************************************)
\* the contents the current file had before the first call are in the
\* archive file or in the current file
OriginalKept ==
    \/ Exists(a_dir, a_arch) /\ a_dir[a_arch] = a_orig
    \/ Exists(a_dir, TimestampFilename) /\ a_dir[TimestampFilename] = a_orig

\* a step leaves an archive file that exists in its place, with its contents
ArchiveNotOverwritten ==
    Exists(a_dir, a_arch) =>
        /\ Exists(a_dir', a_arch)
        /\ a_dir'[a_arch] = a_dir[a_arch]

\* C25: at every step of archive_and_replace_original_timestamps, between
\* the rename or unlink and the save included, and after calls that failed
\* part-way or found no current file, the contents from before the alignment
\* are in the archive file or in the current file; no sequence of calls and
\* failures loses them or overwrites the archive.
OriginalNeverLost == [] OriginalKept /\ [][ArchiveNotOverwritten]_vars

\* a call found no current file, after a call that failed between the
\* rename and the save; the archive holds the original timestamps
OriginalNeverLostWitness ==
    /\ a_err = "FileNotFoundError"
    /\ a_calls >= 2
    /\ a_done = 0
    /\ ~ Exists(a_dir, TimestampFilename)
    /\ Exists(a_dir, a_arch)
    /\ a_dir[a_arch] = a_orig

(***************************************************************************)
(* align_timestamps twice on the same directory                            *)
(***************************************************************************)
\* C27: a second run of align_timestamps on the same directory with the
\* same parameters leaves every timestamps.npy with the contents it had
\* after the first run: the new times come from the sample counters and the
\* sample numbers of the events, never from the current timestamps file.
LocalRerunKeepsCurrent ==
    (method = "local" /\ rerun /\ pc = "done") =>
        /\ DOMAIN fs = DOMAIN first_run.fs
        /\ \A d \in DOMAIN fs :
              /\ fs[d][TimestampFilename] = first_run.fs[d][TimestampFilename]
              /\ [i \in 1..Len(fs[d][TimestampFilename]) |->
                    fs[d][TimestampFilename][i].at] = SampleNumbersOf(d)

\* the second run has ended on a rig of three streams: it has removed and
\* saved again the timestamps of all six folders, which differ from the
\* archived ones
LocalRerunKeepsCurrentWitness ==
    /\ method = "local"
    /\ rerun
    /\ pc = "done"
    /\ Len(written) = 6
    /\ reported = DOMAIN fs
    /\ \A d \in DOMAIN fs :
          fs[d][TimestampFilename] # fs[d][OriginalTimestampFilename]

(***************************************************************************)
(* SpecOrder: align_timestamps and align_timestamps_harp, one after the    *)
(* other in either order, or one of them twice, on the directory of a      *)
(* recording                                                               *)
(***************************************************************************)
\* lines 280-341 and 743-789: the other function is called on the directory
\* of a run that has ended, on the files that the run left
RunOther ==
    /\ pc \in {"done", "harp_done"}
    /\ ~ rerun
    /\ rerun' = TRUE
    /\ first_run' = [fs |-> fs]
    /\ method' = IF method = "local" THEN "harp_only" ELSE "local"
    /\ pc' = IF method = "local" THEN "harp_search" ELSE "main_anchors"
    /\ reported' = {}
    /\ written' = <<>>
    /\ stream_idx' = 0
    /\ main_stream_events' = <<>>
    /\ main_stream_event_sample' = <<>>
    /\ main_stream_times' = <<>>
    /\ main_stream_events_archive' = <<>>
    /\ events_for_stream' = <<>>
    /\ ts_stream' = <<>>
    /\ remap_args' = <<>>
    /\ line_stats' = <<>>
    /\ harp_candidates' = <<>>
    /\ typed' = 0
    /\ harp_line' = 0
    /\ barcode' = <<>>
    /\ start_times' = <<>>
    /\ harp_times' = <<>>
    /\ UNCHANGED <<err, flip_NIDAQ, recordings_left, streams, events, fs,
                   make_plots, pdf, png, avars, cvars, report_file>>

OrderNext ==
    \/ RerunNext
    \/ RunOther

SpecOrder == RerunInit /\ [][OrderNext]_vars

\* an array of timestamps as acquired: no value has been remapped
HoldsRaw(array) ==
    \A i \in 1..Len(array) : array[i].anchors = <<>>

\* an array of timestamps as align_timestamps computes them for folder d:
\* every value is remapped from the sample number at its place
HoldsLocallyAligned(array, d) ==
    /\ \A i \in 1..Len(array) : array[i].anchors # <<>>
    /\ [i \in 1..Len(array) |-> array[i].at] = SampleNumbersOf(d)

\* C26: after any sequence of runs of align_timestamps and of
\* align_timestamps_harp on the same directory, in any order,
\* original_timestamps.npy, when present, holds the timestamps as acquired,
\* and local_timestamps.npy, when present, holds the locally aligned
\* timestamps from before the Harp alignment; neither holds Harp-aligned
\* values.
ArchivesHoldPreAlignment ==
    \A d \in DOMAIN fs :
        /\ Exists(fs[d], OriginalTimestampFilename) =>
              HoldsRaw(fs[d][OriginalTimestampFilename])
        /\ Exists(fs[d], LocalTimestampFilename) =>
              HoldsLocallyAligned(fs[d][LocalTimestampFilename], d)

\* the same, for the order in which generate_qc_report calls the functions:
\* align_timestamps first
ArchivesHoldPreAlignmentLocalFirst ==
    \/ ~ rerun /\ method = "harp_only"
    \/ rerun /\ \E d \in DOMAIN first_run.fs :
                    ~ Exists(first_run.fs[d], OriginalTimestampFilename)
    \/ ArchivesHoldPreAlignment

\* original_timestamps.npy holds values that align_timestamps_harp computed
OriginalArchiveHoldsHarpValues ==
    /\ method = "local"
    /\ rerun
    /\ \E d \in DOMAIN fs :
          /\ Exists(fs[d], OriginalTimestampFilename)
          /\ Exists(fs[d], LocalTimestampFilename)
          /\ HoldsRaw(fs[d][LocalTimestampFilename])
          /\ fs[d][OriginalTimestampFilename]
                = first_run.fs[d][TimestampFilename]

(***************************************************************************)
(* The realign flag of clean_up_sample_chunks                              *)
(***************************************************************************)
\* the first residual range starts at the first sample number of the
\* recording
FirstResidualAtStart(residual_ranges, sample_number) ==
    residual_ranges[1][1] = sample_number[1]

\* C28: on a counter with one or two discontinuities the function returns
\* realign = True exactly when the first residual range starts at the first
\* sample number of the recording, and in every other case it returns
\* realign = False, with the residual ranges.
RealignIffFirstResidualAtStart ==
    (c_pc # "call" /\ NumDiscontinuities(c_sample_number) \in {1, 2}) =>
        /\ c_pc = "returned"
        /\ c_result.residual_ranges # <<>>
        /\ c_result.realign
              <=> FirstResidualAtStart(c_result.residual_ranges,
                                       c_sample_number)

\* when the function returns, its flag is the one of C28
ReturnedRealignIffFirstResidualAtStart ==
    (c_pc = "returned" /\ NumDiscontinuities(c_sample_number) \in {1, 2}) =>
        /\ c_result.residual_ranges
              = AllBut(RunRanges(c_sample_number),
                       MajorInd(RunRanges(c_sample_number)))
        /\ c_result.realign
              <=> FirstResidualAtStart(c_result.residual_ranges,
                                       c_sample_number)

(***************************************************************************)
(* The line that align_timestamps_harp decodes                             *)
(***************************************************************************)
\* a line has been chosen for the recording and its events are decoded, or
\* have been
HarpLineChosen ==
    \/ pc \in {"harp_decode", "harp_continuous", "harp_events"}
    \/ pc \in {"harp_end_recording", "harp_done"} /\ harp_candidates # <<>>
    \/ pc = "failed" /\ barcode # <<>>

\* C29: the line whose events align_timestamps_harp decodes as the Harp
\* barcode of a recording is one of the candidates that search_harp_line
\* returned for the recording, with one candidate and with several.
DecodedLineIsCandidate ==
    HarpLineChosen => harp_line \in Range(harp_candidates)

\* with one candidate, that candidate is decoded
OnlyCandidateIsDecoded ==
    (HarpLineChosen /\ Len(harp_candidates) = 1) =>
        harp_line = harp_candidates[1]

(***************************************************************************)
(* A run on a directory that an earlier run has aligned                    *)
(***************************************************************************)
\* the folder held an archive when the run started: its current timestamps
\* were the product of an earlier run
AlignedBefore(d) ==
    \E arch \in ArchiveNames : Exists(first_run.fs[d], arch)

\* the run in progress has replaced the timestamps of the folder
ReplacedByThisRun(d) == d \in Range(written)

\* the timestamps of the folder were remapped from timestamps that an
\* earlier run had computed; align_timestamps remaps sample numbers
ComputedFromAligned(d) ==
    method = "harp_only" /\ FromHarpTimestamps(d)

\* C19: a run of align_timestamps or of align_timestamps_harp on a folder
\* that already holds an archive, whichever function left it, reports the
\* folder or fails, and does not compute the new timestamps of the folder
\* from the current, already transformed ones.
AlignedFolderIsSurfaced ==
    rerun =>
        \A d \in DOMAIN fs :
            (AlignedBefore(d) /\ ReplacedByThisRun(d)) =>
                /\ d \in reported \/ pc = "failed"
                /\ ~ ComputedFromAligned(d)

\* align_timestamps_harp after align_timestamps: a folder was replaced
\* without a message, from the locally aligned timestamps
HarpAfterLocalIsSilent ==
    /\ rerun
    /\ method = "harp_only"
    /\ pc = "harp_done"
    /\ reported = {}
    /\ \E d \in DOMAIN fs :
          /\ Exists(first_run.fs[d], OriginalTimestampFilename)
          /\ ReplacedByThisRun(d)
          /\ FromHarpTimestamps(d)

(***************************************************************************)
(* SpecRates: align_timestamps on a recording of one probe with its two    *)
(* bands, the sample rates of which are multiples of ten: first-event      *)
(* times such as 0.3 s and 0.4 s have no exact float64                     *)
(***************************************************************************)
\* the AP band and the LFP band of a probe; the rates stand to each other
\* as those of the validated input (30000 Hz and 2500 Hz stand 12 to 1)
ProbeAP ==
    [stream_name |-> <<"P", "r", "A", "-", "A", "P">>, source_node_id |-> 100,
     sample_rate |-> 20,
     folder |-> <<"N", "P", "X", "I", ".", "P", "r", "A", "-", "A", "P">>]

ProbeLFP ==
    [stream_name |-> <<"P", "r", "A", "-", "L", "F", "P">>,
     source_node_id |-> 100, sample_rate |-> 10,
     folder |-> <<"N", "P", "X", "I", ".", "P", "r", "A", "-", "L", "F", "P">>]

\* recording.continuous of the probe
BandLayout == <<ProbeAP, ProbeLFP>>

\* each stream counts its own samples; the counter of the LFP band started
\* one sample of its own, 0.1 s, after that of the AP band
CounterLag(stream) == IF stream = ProbeLFP THEN 1 ELSE 0

\* sync pulse k rises 0.4 * (k + 1) s after the AP counter started
PulseSample(stream, k) ==
    (2 * (k + 1) * stream.sample_rate) \div 5 - CounterLag(stream)

\* the TTL events of one band, as acquired: the two edges of every sync
\* pulse it has seen, and one pulse on another line
BandStreamEvents(stream, pulses) ==
    <<Event(stream, OtherLine, 1, 0)>>
    \o Flatten([i \in 1..Len(Ascending(pulses)) |->
           <<Event(stream, local_sync_line, 1,
                   PulseSample(stream, Ascending(pulses)[i])),
             Event(stream, local_sync_line, 0,
                   PulseSample(stream, Ascending(pulses)[i]) + 1)>>])
    \o <<Event(stream, OtherLine, 0, Len(SampleCounter(stream)) - 1)>>

\* recording.events
BandEventLog(pulses) ==
    Flatten([i \in 1..Len(BandLayout) |->
                BandStreamEvents(BandLayout[i], pulses[i])])

\* the sync pulses each band has seen
BandRecordings == [1..Len(BandLayout) -> PulseRanges]

RatesInit ==
    /\ Init
    /\ recordings_left = 1
    /\ flip_NIDAQ = FALSE

\* lines 329-341: the recording of the session is read
LoadBandRecording ==
    /\ pc = "load"
    /\ recordings_left > 0
    /\ \E pulses \in BandRecordings :
         /\ streams' = BandLayout
         /\ events' = BandEventLog(pulses)
         /\ fs' = InitialFolders(BandLayout, events')
    /\ recordings_left' = recordings_left - 1
    /\ stream_idx' = 0
    /\ main_stream_events' = <<>>
    /\ main_stream_event_sample' = <<>>
    /\ main_stream_times' = <<>>
    /\ main_stream_events_archive' = <<>>
    /\ events_for_stream' = <<>>
    /\ ts_stream' = <<>>
    /\ remap_args' = <<>>
    /\ written' = <<>>
    /\ pc' = "main_anchors"
    /\ UNCHANGED <<err, flip_NIDAQ, avars, cvars, runvars, harpvars>>

RatesNext ==
    \/ LoadBandRecording
    \/ BuildMainAnchors
    \/ WriteMainContinuous
    \/ WriteMainEvents
    \/ SelectStreamEvents
    \/ Reconcile
    \/ CheckCounts
    \/ RemapStream
    \/ WriteStreamContinuous
    \/ WriteStreamEvents
    \/ NextRecording

SpecRates == RatesInit /\ [][RatesNext]_vars

\* the AP band saw three pulses and the LFP band the first two: the first
\* events are 8 / 20 s and 3 / 10 s, 0.1 s apart, and the AP band lost its
\* first event, not its last
FrontTrimmedAtTenthOfSecond ==
    /\ pc = "check"
    /\ CountsDiffer
    /\ ~ FirstOffsetOverThreshold
    /\ Len(main_stream_events_archive) = 3
    /\ Len(SelectedForStream) = 2
    /\ main_stream_events = Tail(main_stream_events_archive)
    /\ events_for_stream = SelectedForStream

\* the quotients of the modelled first events are the float64 values of
\* the quotients at 30000 Hz and 2500 Hz, and the same test follows
BandRatesAgree ==
    /\ DoubleDivide(8, 20) = DoubleDivide(12000, 30000)
    /\ DoubleDivide(3, 10) = DoubleDivide(750, 2500)
    /\ OffsetExceeds(12000, 30000, 750, 2500)
    /\ OffsetExceeds(8, 20, 3, 10)

=============================================================================
